---- MODULE Spec2Model ----
(***************************************************************************)
(* Model of the allocator subsystem of core.hpp: the Allocator dispatch    *)
(* value, the linear Arena, the DynamicArena and the malloc adapter.       *)
(*                                                                         *)
(* Memory is a finite array of bytes indexed by address; a pointer is an   *)
(* address and the null pointer is address 0.  Sizes are scaled down: the  *)
(* machine word is WordBits wide, sizeof(MemoryBlock) is HeaderSize and    *)
(* alignof(max_align_t) is MaxAlign.                                       *)
(***************************************************************************)
EXTENDS Integers, Sequences, FiniteSets, TLC

\* ------------------------------------------------------------------------
\* Bounds of the model
\* ------------------------------------------------------------------------
WordBits == 8          \* width of isize / usize in the model
MemTop   == 40         \* mapped addresses are 0 .. MemTop-1
Cap      == 6          \* capacity of the linear arena's backing buffer
MaxSize  == 2          \* largest size a caller requests
MaxOps   == 4          \* allocator calls per run

\* scaled program constants
HeaderSize == 2        \* sizeof(MemoryBlock)
MaxAlign   == 2        \* alignof(max_align_t), DEFAULT_ALIGNMENT
BlockSizeMin == 2      \* block_size_min the dynamic arena is made with

NULL == 0
Addr == 0 .. (MemTop - 1)
Bases == {4, 5}                    \* base addresses of the backing buffer
HeapStart == MaxAlign              \* first address malloc hands out
HeapStarts == {MaxAlign, 2 * MaxAlign}   \* ... in the dynamic arena runs
Alignments == {1, 2, 4}            \* powers of two a caller passes
BadAlignments == {0, 3}            \* values that are not positive powers of 2
Sizes == 0 .. MaxSize
BadSizes == {-1, -2}
Procs == {"arena_alloc_proc", "dynamic_arena_alloc_proc", "c_allocator_proc"}

\* ------------------------------------------------------------------------
\* Machine integers (isize is signed, usize unsigned, both WordBits wide)
\* ------------------------------------------------------------------------
Pow2W == 2 ^ WordBits
ToUsize(x) == x % Pow2W
ToIsize(u) == IF (u % Pow2W) >= (Pow2W \div 2) THEN (u % Pow2W) - Pow2W
              ELSE u % Pow2W

RECURSIVE AndBits(_, _, _)
AndBits(x, y, n) ==
    IF n = 0 THEN 0
    ELSE ((x % 2) * (y % 2)) + 2 * AndBits(x \div 2, y \div 2, n - 1)

\* a & b and ~a on isize
BitAnd(a, b) == ToIsize(AndBits(ToUsize(a), ToUsize(b), WordBits))
BitNot(a) == (-a) - 1

Max(a, b) == IF a >= b THEN a ELSE b
Min(a, b) == IF a <= b THEN a ELSE b

\* ------------------------------------------------------------------------
\* State
\* ------------------------------------------------------------------------
VARIABLES
    proc,     \* Allocator.alloc: the dispatch procedure the caller's Allocator holds
    arena,    \* struct Arena: data (base address), size (capacity), offset
    dyn,      \* struct DynamicArena: alloc, current, block_size_min
    blocks,   \* the MemoryBlock headers, by address: data, capacity, size, prev
    heap,     \* malloc's state: top (next fresh address), live chunks
    mem,      \* the bytes of memory, by address
    held,     \* the regions the caller holds: records [ptr, size]
    covered,  \* the held regions after which a non-empty region was handed out
    pc,       \* "run"; "fatal" after a failed core_assert; "segv" after a fault
    last,     \* the last call: arguments, outcome, what it saw before
    nops,     \* number of allocator calls made
    setup,    \* how the allocator was made: constructor, its alloc argument,
              \* and whether the object Allocator.data points to is in its
              \* lifetime ("live") or has ended it ("dead")
    obj,      \* the container the program works on: an Array, a RingBuffer,
              \* BitSets or a String; NoObject where there is none
    abs       \* the abstract value the container stands for

vars == <<proc, arena, dyn, blocks, heap, mem, held, covered, pc, last, nops,
          setup, obj, abs>>

NoObject == [kind |-> "none"]

\* the program's objects as one value, passed through the procedures
World == [arena |-> arena, dyn |-> dyn, blocks |-> blocks, heap |-> heap,
          mem |-> mem]

Ok(w, p)   == [st |-> "ok", ptr |-> p, w |-> w]
Fatal(w)   == [st |-> "fatal", ptr |-> NULL, w |-> w]
Segv(w)    == [st |-> "segv", ptr |-> NULL, w |-> w]

\* ------------------------------------------------------------------------
\* memset / memcpy on the byte memory.  Only mapped addresses are written;
\* a call that touches an unmapped address faults (Mapped is FALSE).
\* ------------------------------------------------------------------------
Mapped(lo, n) == n <= 0 \/ (lo >= 0 /\ lo + n <= MemTop)

memset(m, dst, val, n) ==
    [a \in Addr |-> IF a >= dst /\ a < dst + n THEN val ELSE m[a]]

\* memcpy(dst, src, n): byte i of the destination becomes byte i of the
\* source as it was before the call
memcpy(m, dst, src, n) ==
    [a \in Addr |-> IF a >= dst /\ a < dst + n /\ src + (a - dst) \in Addr
                    THEN m[src + (a - dst)]
                    ELSE m[a]]

Bytes(m, p, n) == [i \in 0 .. (n - 1) |-> m[p + i]]

\* ------------------------------------------------------------------------
\* Malloc based allocator
\* ------------------------------------------------------------------------
HeapAlignUp(x) == ((x + MaxAlign - 1) \div MaxAlign) * MaxAlign

Chunk(h, p) == CHOOSE c \in h.live : c.ptr = p

\* malloc(n): a fresh chunk of n bytes at p, or null when the heap is exhausted
heap_fresh(w, n, p) ==
    IF p + n > MemTop
    THEN [ptr |-> NULL, w |-> w]
    ELSE [ptr |-> p,
          w |-> [w EXCEPT !.heap = [top |-> p + Max(n, 1),
                                    live |-> @.live \cup
                                             {[ptr |-> p, size |-> n]}]]]

\* calloc(size, 1): a fresh chunk with its bytes zeroed
heap_zeroed(r, n) ==
    IF r.ptr = NULL THEN r
    ELSE [r EXCEPT !.w.mem = memset(@, r.ptr, 0, n)]

c_calloc(w, size) ==
    heap_zeroed(heap_fresh(w, ToUsize(size), HeapAlignUp(w.heap.top)),
                ToUsize(size))

\* free(old_memory)
c_free(w, old_memory) ==
    [w EXCEPT !.heap.live = {c \in @ : c.ptr # old_memory}]

\* realloc of the chunk c to n bytes where it is
heap_in_place(w, c, n) ==
    [ptr |-> c.ptr,
     w |-> [w EXCEPT !.heap =
                [top |-> IF c.ptr + Max(c.size, 1) = @.top
                         THEN c.ptr + Max(n, 1) ELSE @.top,
                 live |-> (@.live \ {c}) \cup {[ptr |-> c.ptr, size |-> n]}]]]

\* realloc of the chunk c to a fresh chunk r: the first min(old, new) bytes
\* are copied and c is freed
heap_moved(r, c, n) ==
    IF r.ptr = NULL THEN r
    ELSE [r EXCEPT !.w.heap.live = @ \ {c},
                   !.w.mem = memcpy(@, r.ptr, c.ptr, Min(c.size, n))]

\* realloc(old_memory, size): the chunk resized where it is, or moved; null
\* when the heap is exhausted.  The bytes added are not initialised.
heap_realloc(w, c, n, move) ==
    IF ~move /\ (n <= c.size
                 \/ (c.ptr + Max(c.size, 1) = w.heap.top
                     /\ c.ptr + n <= MemTop))
    THEN heap_in_place(w, c, n)
    ELSE heap_moved(heap_fresh(w, n, HeapAlignUp(w.heap.top)), c, n)

c_realloc(w, old_memory, size, move) ==
    IF old_memory = NULL
    THEN heap_fresh(w, ToUsize(size), HeapAlignUp(w.heap.top))
    ELSE heap_realloc(w, Chunk(w.heap, old_memory), ToUsize(size), move)

\* core_assert(data != nullptr) after calloc
c_alloc_checked(w, r) ==
    IF r.ptr = NULL THEN Fatal(w) ELSE Ok(r.w, r.ptr)

\* core_assert(data != nullptr) after realloc, then
\* memset((u8*)data + old_size, 0, size - old_size)
c_resize_cleared(w, r, old_size, count) ==
    IF r.ptr = NULL THEN Fatal(w)
    ELSE IF Mapped(r.ptr + old_size, count)
    THEN Ok([r.w EXCEPT !.mem = memset(@, r.ptr + old_size, 0, count)], r.ptr)
    ELSE Segv([r.w EXCEPT !.mem = memset(@, r.ptr + old_size, 0, count)])

\* c_allocator_proc
c_allocator_proc(w, mode, size, alignment, old_memory, old_size, move) ==
    IF ~(ToUsize(alignment) <= MaxAlign)
    THEN Fatal(w)
    ELSE CASE mode = "Alloc" -> c_alloc_checked(w, c_calloc(w, size))
           [] mode = "Free" -> Ok(c_free(w, old_memory), NULL)
           [] mode = "Resize" ->
                c_resize_cleared(w, c_realloc(w, old_memory, size, move),
                                 old_size, ToUsize(size - old_size))

\* ------------------------------------------------------------------------
\* Arena
\* ------------------------------------------------------------------------
\* slice_clear_to_zero + arena_init
arena_init(w, base, size) ==
    [w EXCEPT !.arena = [data |-> base, size |-> size, offset |-> 0],
              !.mem = memset(@, base, 0, size)]

\* AlignForward with the rounding left out
AlignForward_unaligned(offset, alignment) == offset

\* (offset + alignment - 1) & ~(alignment - 1)
AlignForward(offset, alignment) ==
    BitAnd(offset + alignment - 1, BitNot(alignment - 1))

ArenaAsserts(a) == a.data # NULL /\ a.offset >= 0 /\ a.offset <= a.size

\* arena_bump with the offset stored before the out-of-memory assertion
arena_bump_moves_first(w, size, aligned_offset) ==
    IF ~(aligned_offset + size <= w.arena.size)
    THEN Fatal([w EXCEPT !.arena.offset = aligned_offset + size])
    ELSE Ok([w EXCEPT !.arena.offset = aligned_offset + size],
            w.arena.data + aligned_offset)

\* arena_alloc, from the out-of-memory assertion on
arena_bump(w, size, aligned_offset) ==
    IF ~(aligned_offset + size <= w.arena.size)
    THEN Fatal(w)                  \* "Arena out of memory"
    ELSE Ok([w EXCEPT !.arena.offset = aligned_offset + size],
            w.arena.data + aligned_offset)

\* arena_alloc
arena_alloc(w, size, alignment) ==
    IF ~ArenaAsserts(w.arena)
    THEN Fatal(w)
    ELSE arena_bump(w, size, AlignForward(w.arena.offset, alignment))

\* arena_realloc, the last allocation resized in place
arena_resize_tail(w, old_memory, old_size, new_size) ==
    IF ~(w.arena.offset - old_size + new_size <= w.arena.size)
    THEN Fatal(w)                  \* "Arena out of memory"
    ELSE IF ~(w.arena.offset + (new_size - old_size) >= 0)
    THEN Fatal([w EXCEPT !.arena.offset = @ + (new_size - old_size)])
    ELSE IF new_size < old_size
    THEN Ok([w EXCEPT !.arena.offset = @ + (new_size - old_size),
                      !.mem = memset(@, old_memory + new_size, 0,
                                     old_size - new_size)],
            old_memory)
    ELSE Ok([w EXCEPT !.arena.offset = @ + (new_size - old_size)], old_memory)

\* arena_realloc, memcpy(new_memory, old_memory, old_size) into the fresh
\* allocation r
arena_resize_copy(r, old_memory, old_size) ==
    IF r.st # "ok" THEN r
    ELSE IF Mapped(r.ptr, ToUsize(old_size))
            /\ Mapped(old_memory, ToUsize(old_size))
    THEN Ok([r.w EXCEPT !.mem = memcpy(@, r.ptr, old_memory,
                                       ToUsize(old_size))], r.ptr)
    ELSE Segv([r.w EXCEPT !.mem = memcpy(@, r.ptr, old_memory,
                                         ToUsize(old_size))])

\* arena_realloc, "Check if we are the last allocation"
arena_is_last(a, old_memory, old_size, new_size) ==
    old_memory = a.data + a.offset - old_size

\* arena_realloc
arena_realloc(w, old_memory, old_size, new_size, alignment) ==
    IF ~(ArenaAsserts(w.arena) /\ new_size > 0
         /\ BitAnd(old_memory, alignment - 1) = 0)
    THEN Fatal(w)
    ELSE IF old_memory = NULL
    THEN arena_alloc(w, new_size, alignment)
    ELSE IF arena_is_last(w.arena, old_memory, old_size, new_size)
    THEN arena_resize_tail(w, old_memory, old_size, new_size)
    ELSE arena_resize_copy(arena_alloc(w, new_size, alignment), old_memory,
                           old_size)

\* arena_reset with the clearing of the buffer left out
arena_reset_keeps_bytes(w) ==
    IF ~ArenaAsserts(w.arena)
    THEN Fatal(w)
    ELSE Ok([w EXCEPT !.arena.offset = 0], NULL)

\* arena_reset
arena_reset(w) ==
    IF ~ArenaAsserts(w.arena)
    THEN Fatal(w)
    ELSE Ok([w EXCEPT !.arena.offset = 0,
                      !.mem = memset(@, w.arena.data, 0, w.arena.size)], NULL)

\* arena_alloc_proc whose Free rewinds the arena
arena_alloc_proc_free_rewinds(w, mode, size, alignment, old_memory, old_size) ==
    CASE mode = "Alloc"  -> arena_alloc(w, size, alignment)
      [] mode = "Free"   -> Ok([w EXCEPT !.arena.offset = 0], NULL)
      [] mode = "Resize" -> arena_realloc(w, old_memory, old_size, size,
                                          alignment)

\* arena_alloc_proc
arena_alloc_proc(w, mode, size, alignment, old_memory, old_size) ==
    CASE mode = "Alloc"  -> arena_alloc(w, size, alignment)
      [] mode = "Free"   -> Ok(w, NULL)
      [] mode = "Resize" -> arena_realloc(w, old_memory, old_size, size,
                                          alignment)

\* ------------------------------------------------------------------------
\* Allocator dispatch for the allocators a dynamic arena is made over
\* ------------------------------------------------------------------------
BackingProc(w, p, mode, size, alignment, old_memory, old_size) ==
    IF p = "arena_alloc_proc"
    THEN arena_alloc_proc(w, mode, size, alignment, old_memory, old_size)
    ELSE c_allocator_proc(w, mode, size, alignment, old_memory, old_size, FALSE)

\* core_alloc: core_assert_msg((alignment & (alignment - 1)) == 0, ...)
IsPow2Check(alignment) == BitAnd(alignment, alignment - 1) = 0

\* core_alloc<T>(allocator, count, alignment) with sizeof(T) = elem
backing_core_alloc(w, p, elem, count, alignment) ==
    IF ~IsPow2Check(alignment)
    THEN Fatal(w)                  \* "Alignment must be a power of 2"
    ELSE BackingProc(w, p, "Alloc", ToIsize(ToUsize(count) * elem), alignment,
                     NULL, 0)

\* core_free(allocator, memory)
backing_core_free(w, p, memory) ==
    BackingProc(w, p, "Free", 0, 0, memory, 0)

\* ------------------------------------------------------------------------
\* Dynamic Arena
\* ------------------------------------------------------------------------
\* memory_block_create, the header written into the allocation r
block_header(r, size) ==
    IF r.st # "ok" THEN r
    ELSE Ok([r.w EXCEPT !.blocks =
                [b \in (DOMAIN @) \cup {r.ptr} |->
                    IF b = r.ptr
                    THEN [data |-> r.ptr + HeaderSize, capacity |-> size,
                          size |-> 0, prev |-> NULL]
                    ELSE @[b]]],
            r.ptr)

\* memory_block_create: alignof(MemoryBlock) is MaxAlign in the model
memory_block_create(w, size, alloc) ==
    block_header(backing_core_alloc(w, alloc, HeaderSize, HeaderSize + size,
                                    MaxAlign),
                 size)

\* dynamic_arena_init, the block r made current
arena_over_block(r, block_size_min, alloc) ==
    IF r.st # "ok" THEN r
    ELSE Ok([r.w EXCEPT !.dyn = [alloc |-> alloc, current |-> r.ptr,
                                 block_size_min |-> block_size_min]],
            NULL)

\* dynamic_arena_init
dynamic_arena_init(w, block_size_min, alloc) ==
    arena_over_block(memory_block_create(w, block_size_min, alloc),
                     block_size_min, alloc)

\* dynamic_arena_make: arena.alloc = alloc, then dynamic_arena_init(&arena,
\* block_size_min) with init's default third argument c_allocator()
dynamic_arena_make(w, block_size_min, alloc) ==
    dynamic_arena_init([w EXCEPT !.dyn.alloc = alloc], block_size_min,
                       "c_allocator_proc")

\* dynamic_arena_alloc, the allocation made in the current block
block_bump(w, size, result, new_size) ==
    IF Mapped(result, ToUsize(size))
    THEN Ok([w EXCEPT !.blocks[w.dyn.current].size = new_size,
                      !.mem = memset(@, result, 0, ToUsize(size))],
            result)
    ELSE Segv([w EXCEPT !.blocks[w.dyn.current].size = new_size,
                        !.mem = memset(@, result, 0, ToUsize(size))])

\* block_linked with new_block->prev left null
block_linked_no_prev(r, size, current) ==
    IF r.st # "ok" THEN r
    ELSE Ok([r.w EXCEPT !.blocks[r.ptr].size = size,
                        !.dyn.current = r.ptr,
                        !.mem = memset(@, r.ptr + HeaderSize, 0,
                                       ToUsize(size))],
            r.ptr + HeaderSize)

\* dynamic_arena_alloc, the new block r linked in and allocated from
block_linked(r, size, current) ==
    IF r.st # "ok" THEN r
    ELSE IF Mapped(r.ptr + HeaderSize, ToUsize(size))
    THEN Ok([r.w EXCEPT !.blocks[r.ptr].prev = current,
                        !.blocks[r.ptr].size = size,
                        !.dyn.current = r.ptr,
                        !.mem = memset(@, r.ptr + HeaderSize, 0,
                                       ToUsize(size))],
            r.ptr + HeaderSize)
    ELSE Segv([r.w EXCEPT !.blocks[r.ptr].prev = current,
                          !.blocks[r.ptr].size = size,
                          !.dyn.current = r.ptr,
                          !.mem = memset(@, r.ptr + HeaderSize, 0,
                                         ToUsize(size))])

\* block_alloc with the capacity test left out
block_alloc_always_bumps(w, cur, size, result) ==
    block_bump(w, size, result, (result + size) - cur.data)

\* dynamic_arena_alloc, with result the aligned address in the current block
block_alloc(w, cur, size, result) ==
    IF (result + size) - cur.data <= cur.capacity
    THEN block_bump(w, size, result, (result + size) - cur.data)
    ELSE block_linked(memory_block_create(w, Max(w.dyn.block_size_min, size),
                                          w.dyn.alloc),
                      size, w.dyn.current)

\* dynamic_arena_alloc
dynamic_arena_alloc(w, size, alignment) ==
    IF w.dyn.current = NULL
    THEN Segv(w)                   \* arena->current->data with current null
    ELSE block_alloc(w, w.blocks[w.dyn.current], size,
                     AlignForward(w.blocks[w.dyn.current].data
                                      + w.blocks[w.dyn.current].size,
                                  alignment))

\* dynamic_arena_realloc, memcpy(new_memory, old_memory, old_size) into the
\* fresh allocation r
block_resize_copy(r, old_memory, old_size) ==
    IF r.st # "ok" THEN r
    ELSE IF Mapped(r.ptr, old_size) /\ Mapped(old_memory, old_size)
    THEN Ok([r.w EXCEPT !.mem = memcpy(@, r.ptr, old_memory, old_size)],
            r.ptr)
    ELSE Segv([r.w EXCEPT !.mem = memcpy(@, r.ptr, old_memory, old_size)])

\* dynamic_arena_realloc, the last allocation resized in place
block_resize_tail(w, old_memory, old_size, new_size, new_block_size) ==
    IF ~(new_block_size >= 0)
    THEN Fatal([w EXCEPT !.blocks[w.dyn.current].size = new_block_size])
    ELSE IF new_size < old_size
    THEN Ok([w EXCEPT !.blocks[w.dyn.current].size = new_block_size,
                      !.mem = memset(@, old_memory + new_size, 0,
                                     old_size - new_size)],
            old_memory)
    ELSE Ok([w EXCEPT !.blocks[w.dyn.current].size = new_block_size],
            old_memory)

\* dynamic_arena_realloc, past its assertions
block_realloc(w, cur, old_memory, old_size, new_size, alignment) ==
    IF old_memory = cur.data + cur.size - old_size
       /\ ~((old_memory - cur.data) + new_size > cur.capacity)
    THEN block_resize_tail(w, old_memory, old_size, new_size,
                           (old_memory - cur.data) + new_size)
    ELSE block_resize_copy(dynamic_arena_alloc(w, new_size, alignment),
                           old_memory, old_size)

\* dynamic_arena_realloc
dynamic_arena_realloc(w, old_memory, old_size, new_size, alignment) ==
    IF ~(w.dyn.current # NULL /\ old_memory # NULL /\ old_size > 0
         /\ new_size > 0 /\ BitAnd(old_memory, alignment - 1) = 0)
    THEN Fatal(w)
    ELSE block_realloc(w, w.blocks[w.dyn.current], old_memory, old_size,
                       new_size, alignment)

\* core_free(arena->alloc, block): the block is gone
block_freed(r, block) ==
    [r.w EXCEPT !.blocks = [b \in (DOMAIN @) \ {block} |-> @[b]]]

\* dynamic_arena_free's loop when it stops after the first block
FreeChain_first_only(w, block) ==
    IF block = NULL THEN w
    ELSE block_freed(backing_core_free(w, w.dyn.alloc, block), block)

\* the loop of dynamic_arena_free: frees block and every block before it
RECURSIVE FreeChain(_, _)
FreeChain(w, block) ==
    IF block = NULL THEN w
    ELSE FreeChain(block_freed(backing_core_free(w, w.dyn.alloc, block),
                               block),
                   w.blocks[block].prev)

\* the core_free calls the loop of dynamic_arena_free makes, in order: the
\* allocator each is made on and the pointer it is given
RECURSIVE FreeCalls(_, _)
FreeCalls(w, block) ==
    IF block = NULL THEN <<>>
    ELSE <<[alloc |-> w.dyn.alloc, memory |-> block]>>
         \o FreeCalls(block_freed(backing_core_free(w, w.dyn.alloc, block),
                                  block),
                      w.blocks[block].prev)

\* dynamic_arena_free
dynamic_arena_free(w) ==
    Ok([FreeChain(w, w.dyn.current) EXCEPT !.dyn.current = NULL], NULL)

\* the loop of dynamic_arena_reset
RECURSIVE ResetChain(_, _)
ResetChain(w, block) ==
    IF w.blocks[block].prev = NULL
    THEN [w EXCEPT !.blocks[block].size = 0,
                   !.mem = memset(@, w.blocks[block].data, 0,
                                  w.blocks[block].capacity),
                   !.dyn.current = block]
    ELSE ResetChain(block_freed(backing_core_free(w, w.dyn.alloc, block),
                                block),
                    w.blocks[block].prev)

\* dynamic_arena_reset that empties the current block and frees nothing
dynamic_arena_reset_keeps_current(w) ==
    IF ~(w.dyn.current # NULL) THEN Fatal(w)
    ELSE Ok([w EXCEPT !.blocks[w.dyn.current].size = 0,
                      !.mem = memset(@, w.blocks[w.dyn.current].data, 0,
                                     w.blocks[w.dyn.current].capacity)],
            NULL)

\* dynamic_arena_reset
dynamic_arena_reset(w) ==
    IF ~(w.dyn.current # NULL) THEN Fatal(w)
    ELSE Ok(ResetChain(w, w.dyn.current), NULL)

\* the loop of dynamic_arena_get_size
RECURSIVE ChainSize(_, _)
ChainSize(w, block) ==
    IF block = NULL THEN 0
    ELSE w.blocks[block].size + ChainSize(w, w.blocks[block].prev)

\* dynamic_arena_get_size: the value returned is carried in ptr
dynamic_arena_get_size(w) == Ok(w, ChainSize(w, w.dyn.current))

\* dynamic_arena_alloc_proc
dynamic_arena_alloc_proc(w, mode, size, alignment, old_memory, old_size) ==
    CASE mode = "Alloc"  -> dynamic_arena_alloc(w, size, alignment)
      [] mode = "Free"   -> Ok(w, NULL)
      [] mode = "Resize" -> dynamic_arena_realloc(w, old_memory, old_size,
                                                  size, alignment)

\* ------------------------------------------------------------------------
\* The calls a program makes through its Allocator value
\* ------------------------------------------------------------------------
\* allocator.alloc(allocator.data, mode, ...)
Dispatch(w, p, mode, size, alignment, old_memory, old_size, move) ==
    CASE p = "arena_alloc_proc" ->
            arena_alloc_proc(w, mode, size, alignment, old_memory, old_size)
      [] p = "dynamic_arena_alloc_proc" ->
            dynamic_arena_alloc_proc(w, mode, size, alignment, old_memory,
                                     old_size)
      [] p = "c_allocator_proc" ->
            c_allocator_proc(w, mode, size, alignment, old_memory, old_size,
                             move)

\* core_alloc<u8>(allocator, count, alignment)
core_alloc(w, p, count, alignment) ==
    IF ~IsPow2Check(alignment)
    THEN Fatal(w)                  \* "Alignment must be a power of 2"
    ELSE Dispatch(w, p, "Alloc", count, alignment, NULL, 0, FALSE)

\* core_realloc<u8>(allocator, memory, old_size, new_size, alignment)
core_realloc(w, p, memory, old_size, new_size, alignment, move) ==
    Dispatch(w, p, "Resize", new_size, alignment, memory, old_size, move)

\* core_free(allocator, memory)
core_free(w, p, memory) ==
    Dispatch(w, p, "Free", 0, 0, memory, 0, FALSE)

\* the bump cursor of the allocator in use
Cursor(w) ==
    CASE proc = "arena_alloc_proc" -> w.arena.offset
      [] proc = "dynamic_arena_alloc_proc" ->
            IF w.dyn.current = NULL THEN 0 ELSE w.blocks[w.dyn.current].size
      [] OTHER -> 0

\* the caller initialises every region it is given before its next call
Pending ==
    /\ last.st = "ok"
    /\ last.call.op \in {"Alloc", "Resize"}
    /\ last.call.size > 0

Running == pc = "run" /\ nops < MaxOps /\ ~Pending

Call(mode, size, alignment, old_memory, old_size) ==
    [op |-> mode, size |-> size, alignment |-> alignment,
     old_memory |-> old_memory, old_size |-> old_size]

\* a region a caller holds
Region(p, n) == [ptr |-> p, size |-> n]

\* the regions that now have a non-empty region handed out after them
Covered(call, r, newHeld) ==
    LET old == Region(call.old_memory, call.old_size)
        new == Region(r.ptr, call.size)
    IN  CASE call.op = "Alloc" ->
                IF call.size > 0 THEN newHeld \ {new} ELSE covered
          [] call.op = "Resize" ->
                IF r.ptr # call.old_memory THEN newHeld \ {new}
                ELSE IF old \in covered THEN (covered \ {old}) \cup {new}
                ELSE covered
          [] OTHER -> covered \cap newHeld

\* a call's outcome becomes the new state; the call is remembered in last
Finish(call, r, newHeld) ==
    /\ arena' = r.w.arena
    /\ dyn' = r.w.dyn
    /\ blocks' = r.w.blocks
    /\ heap' = r.w.heap
    /\ mem' = r.w.mem
    /\ pc' = IF r.st = "ok" THEN "run" ELSE r.st
    /\ held' = IF r.st = "ok" THEN newHeld ELSE held
    /\ covered' = IF r.st = "ok" THEN Covered(call, r, newHeld) ELSE covered
    /\ last' = [call |-> call, st |-> r.st, ptr |-> r.ptr,
                cursor0 |-> Cursor(World),
                current0 |-> dyn.current,
                blocks0 |-> blocks,
                covered0 |-> Region(call.old_memory, call.old_size) \in covered,
                frees |-> IF call.op = "Destroy"
                          THEN FreeCalls(World, dyn.current) ELSE <<>>,
                old |-> IF call.old_memory # NULL /\ call.old_size > 0
                           /\ Mapped(call.old_memory, call.old_size)
                        THEN Bytes(mem, call.old_memory, call.old_size)
                        ELSE <<>>]
    /\ nops' = nops + 1
    /\ UNCHANGED <<proc, setup, obj, abs>>

\* the caller holds the region an allocate returned
Allocated(call, r) ==
    Finish(call, r, IF call.size >= 0
                    THEN held \cup {Region(r.ptr, call.size)} ELSE held)

\* the caller holds the region a resize returned in place of the old one
Resized(call, r) ==
    Finish(call, r, (held \ {Region(call.old_memory, call.old_size)})
                        \cup {Region(r.ptr, call.size)})

DoAlloc(count, alignment) ==
    Allocated(Call("Alloc", count, alignment, NULL, 0),
              core_alloc(World, proc, count, alignment))

DoRealloc(memory, old_size, new_size, alignment, move) ==
    Resized(Call("Resize", new_size, alignment, memory, old_size),
            core_realloc(World, proc, memory, old_size, new_size, alignment,
                         move))

\* ------------------------------------------------------------------------
\* Actions
\* ------------------------------------------------------------------------
Allocate ==
    /\ Running
    /\ \E count \in Sizes, alignment \in Alignments :
           /\ proc = "c_allocator_proc" => count > 0
           /\ DoAlloc(count, alignment)

Resize ==
    /\ Running
    /\ \E r \in held, new_size \in 1 .. MaxSize, alignment \in Alignments,
          move \in BOOLEAN :
           /\ move => proc = "c_allocator_proc"
           /\ DoRealloc(r.ptr, r.size, new_size, alignment, move)

ResizeNull ==
    /\ Running
    /\ \E new_size \in 1 .. MaxSize, alignment \in Alignments :
           DoRealloc(NULL, 0, new_size, alignment, FALSE)

Free ==
    /\ Running
    /\ \E r \in held :
           Finish(Call("Free", 0, 0, r.ptr, 0), core_free(World, proc, r.ptr),
                  held \ {r})

Reset ==
    /\ Running
    /\ proc # "c_allocator_proc"
    /\ Finish(Call("Reset", 0, 0, NULL, 0),
              IF proc = "arena_alloc_proc" THEN arena_reset(World)
              ELSE dynamic_arena_reset(World),
              {})

Destroy ==
    /\ Running
    /\ proc = "dynamic_arena_alloc_proc"
    /\ Finish(Call("Destroy", 0, 0, NULL, 0), dynamic_arena_free(World), {})

\* the caller writes non-zero bytes into the region it has just been given
Pattern(i) == 1 + (i % 2)

NoCall(op) == [call |-> Call(op, 0, 0, NULL, 0), st |-> "ok", ptr |-> NULL,
               cursor0 |-> 0, current0 |-> NULL, blocks0 |-> <<>>,
               covered0 |-> FALSE, frees |-> <<>>, old |-> <<>>]

CallerWrite ==
    /\ pc = "run"
    /\ Pending
    /\ mem' = [a \in Addr |-> IF a >= last.ptr /\ a < last.ptr + last.call.size
                              THEN Pattern(a - last.ptr) ELSE mem[a]]
    /\ last' = NoCall("Write")
    /\ UNCHANGED <<proc, arena, dyn, blocks, heap, held, covered, pc, nops,
                   setup, obj, abs>>

\* calls outside the contract: negative sizes, alignments that are not
\* positive powers of two
AllocateMisuse ==
    /\ Running
    /\ \E count \in Sizes \cup BadSizes,
          alignment \in Alignments \cup BadAlignments :
           /\ (count \in BadSizes \/ alignment \in BadAlignments)
           /\ DoAlloc(count, alignment)

\* a resize of no region with a size or an alignment outside the ones a
\* caller of Resize passes: size 0 or less, alignment 0 or 3
ResizeNullMisuse ==
    /\ Running
    /\ \E new_size \in Sizes \cup BadSizes,
          alignment \in Alignments \cup BadAlignments :
           /\ (new_size <= 0 \/ alignment \in BadAlignments)
           /\ proc = "c_allocator_proc" => new_size > 0
           /\ DoRealloc(NULL, 0, new_size, alignment, FALSE)

\* ------------------------------------------------------------------------
\* Initial states: one Allocator of each kind, freshly made
\* ------------------------------------------------------------------------
\* stale bytes of whoever used the memory before
Garbage == [a \in Addr |-> IF a = NULL THEN 0 ELSE 1 + (a % 2)]

World0 == [arena |-> [data |-> NULL, size |-> 0, offset |-> 0],
           dyn |-> [alloc |-> "c_allocator_proc", current |-> NULL,
                    block_size_min |-> 0],
           blocks |-> <<>>,
           heap |-> [top |-> HeapStart, live |-> {}],
           mem |-> Garbage]

InitWorlds(p) ==
    CASE p = "arena_alloc_proc" ->
            {arena_init(World0, base, Cap) : base \in Bases}
      [] p = "dynamic_arena_alloc_proc" ->
            {dynamic_arena_init(World0, BlockSizeMin, "c_allocator_proc").w}
      [] p = "c_allocator_proc" -> {World0}

\* the constructor call behind each kind of allocator in Init
Setup0(p) ==
    [by |-> CASE p = "arena_alloc_proc" -> "arena_init"
              [] p = "dynamic_arena_alloc_proc" -> "dynamic_arena_init"
              [] p = "c_allocator_proc" -> "c_allocator",
     alloc |-> "c_allocator_proc",
     context |-> "live"]

Init ==
    /\ proc \in Procs
    /\ setup = Setup0(proc)
    /\ \E w \in InitWorlds(proc) :
          /\ arena = w.arena
          /\ dyn = w.dyn
          /\ blocks = w.blocks
          /\ heap = w.heap
          /\ mem = w.mem
    /\ held = {}
    /\ covered = {}
    /\ pc = "run"
    /\ last = NoCall("Init")
    /\ nops = 0
    /\ obj = NoObject
    /\ abs = <<>>

Next ==
    \/ Allocate
    \/ Resize
    \/ ResizeNull
    \/ Free
    \/ Reset
    \/ Destroy
    \/ CallerWrite

Spec == Init /\ [][Next]_vars

NextMisuse == Next \/ AllocateMisuse \/ ResizeNullMisuse

SpecMisuse == Init /\ [][NextMisuse]_vars

\* ------------------------------------------------------------------------
\* Dynamic arenas over either backing allocator, made by either constructor
\* ------------------------------------------------------------------------
\* room in the backing arena's buffer for two blocks of the minimum size
BackCap == 2 * (HeaderSize * (HeaderSize + BlockSizeMin))

Setups == [by : {"dynamic_arena_init", "dynamic_arena_make"},
           alloc : {"arena_alloc_proc", "c_allocator_proc"},
           context : {"live"}]

\* arena_make(buff) over the buffer the allocation r returned
arena_over(r, size) == arena_init(r.w, r.ptr, size)

\* Slice<u8> buff = slice_make<u8>(BackCap, c_allocator());
\* Arena backing_arena = arena_make(buff);
BackingWorld(hs) ==
    arena_over(core_alloc([World0 EXCEPT !.heap.top = hs], "c_allocator_proc",
                          BackCap, 1),
               BackCap)

\* the objects the caller has before it makes the dynamic arena: a backing
\* linear arena when that is what it passes, else nothing but the heap
CallerWorld(s, hs) ==
    IF s.alloc = "arena_alloc_proc" THEN BackingWorld(hs)
    ELSE [World0 EXCEPT !.heap.top = hs]

DynamicWorld(s, hs) ==
    IF s.by = "dynamic_arena_make"
    THEN dynamic_arena_make(CallerWorld(s, hs), BlockSizeMin, s.alloc).w
    ELSE dynamic_arena_init(CallerWorld(s, hs), BlockSizeMin, s.alloc).w

InitDynamic ==
    /\ proc = "dynamic_arena_alloc_proc"
    /\ setup \in Setups
    /\ \E hs \in HeapStarts :
          /\ arena = DynamicWorld(setup, hs).arena
          /\ dyn = DynamicWorld(setup, hs).dyn
          /\ blocks = DynamicWorld(setup, hs).blocks
          /\ heap = DynamicWorld(setup, hs).heap
          /\ mem = DynamicWorld(setup, hs).mem
    /\ held = {}
    /\ covered = {}
    /\ pc = "run"
    /\ last = NoCall("Init")
    /\ nops = 0
    /\ obj = NoObject
    /\ abs = <<>>

\* dynamic_arena_get_size(&arena)
TotalSize ==
    /\ Running
    /\ Finish(Call("Size", 0, 0, NULL, 0), dynamic_arena_get_size(World), held)

NextDynamic == Next \/ TotalSize

SpecDynamic == InitDynamic /\ [][NextDynamic]_vars

\* ------------------------------------------------------------------------
\* The allocator create_temporary_storage returns
\* ------------------------------------------------------------------------
\* what a read of the DynamicArena finds once the frame that held it has
\* returned: the fields as they were left, or fields a later frame wrote
\* over (a null current, another block_size_min)
StaleArenas(d) ==
    {d, [d EXCEPT !.current = NULL], [d EXCEPT !.block_size_min = 0]}

\* DynamicArena dynamic_arena = dynamic_arena_make(default_block_size,
\* c_allocator()); return dynamic_arena_allocator(&dynamic_arena);
\* the worlds the caller can find behind the returned Allocator
create_temporary_storage(w, default_block_size) ==
    {[dynamic_arena_make(w, default_block_size, "c_allocator_proc").w
         EXCEPT !.dyn = d] :
       d \in StaleArenas(dynamic_arena_make(w, default_block_size,
                                            "c_allocator_proc").w.dyn)}

InitTemporary ==
    /\ proc = "dynamic_arena_alloc_proc"
    /\ setup = [by |-> "create_temporary_storage",
                alloc |-> "c_allocator_proc", context |-> "dead"]
    /\ \E hs \in HeapStarts :
          \E w \in create_temporary_storage([World0 EXCEPT !.heap.top = hs],
                                            BlockSizeMin) :
             /\ arena = w.arena
             /\ dyn = w.dyn
             /\ blocks = w.blocks
             /\ heap = w.heap
             /\ mem = w.mem
    /\ held = {}
    /\ covered = {}
    /\ pc = "run"
    /\ last = NoCall("Init")
    /\ nops = 0
    /\ obj = NoObject
    /\ abs = <<>>

SpecTemporary == InitTemporary /\ [][NextDynamic]_vars

\* ------------------------------------------------------------------------
\* Containers: what every container operation returns
\* ------------------------------------------------------------------------
MaxVal == 3
Vals == 1 .. MaxVal

\* the outcome of a container operation: how it ended, the objects it left,
\* the container it left and the value it returned
Ret(st, w, o, v) == [st |-> st, w |-> w, obj |-> o, ret |-> v]

\* *(T*)p = v for a T of es bytes: the bytes of v, least significant first
StoreElem(m, p, es, v) ==
    [a \in Addr |-> IF a >= p /\ a < p + es
                    THEN (v \div (256 ^ (a - p))) % 256
                    ELSE m[a]]

\* *(T*)p for a T of es bytes
RECURSIVE LoadElem(_, _, _)
LoadElem(m, p, es) ==
    IF es = 0 THEN 0 ELSE m[p] + 256 * LoadElem(m, p + 1, es - 1)

\* a container call's outcome becomes the new state
Returned(op, arg, r, newAbs) ==
    /\ arena' = r.w.arena
    /\ dyn' = r.w.dyn
    /\ blocks' = r.w.blocks
    /\ heap' = r.w.heap
    /\ mem' = r.w.mem
    /\ pc' = IF r.st = "ok" THEN "run" ELSE r.st
    /\ obj' = r.obj
    /\ abs' = IF r.st = "ok" THEN newAbs ELSE abs
    /\ last' = [call |-> [op |-> op, arg |-> arg], st |-> r.st,
                ret |-> r.ret, obj0 |-> obj, abs0 |-> abs,
                cursor0 |-> arena.offset]
    /\ nops' = nops + 1
    /\ UNCHANGED <<proc, held, covered, setup>>

Working == pc = "run" /\ nops < MaxOps

\* ------------------------------------------------------------------------
\* Array<T> over an arena allocator; sizeof(T) = alignof(T) = setup.elem
\* ------------------------------------------------------------------------
ArrayBytes == 24
ElemSizes == {1, 2}
Capacities == {1, 2}

\* int values[] = {...}: where the caller keeps the elements it pushes as a
\* slice, past the arena's buffer
Scratch == MemTop - 8

\* the struct array_init fills from the allocation r
array_made(r, alloc, capacity) ==
    Ret(r.st, r.w,
        [kind |-> "Array", alloc |-> alloc,
         items |-> [data |-> r.ptr, size |-> 0], capacity |-> capacity],
        0)

\* array_init / array_make
array_init(w, alloc, capacity, es) ==
    IF ~(capacity > 0)
    THEN Ret("fatal", w, NoObject, 0)
    ELSE array_made(core_alloc(w, alloc, capacity * es, es), alloc, capacity)

\* the assertions array_push, array_push_slice and array_clear open with
ArrayAsserts(a) ==
    a.items.data # NULL /\ a.items.size >= 0 /\ a.items.size <= a.capacity

\* array_push: array->items[array->items.size++] = item, in the storage r
array_put(r, a, capacity, item, es) ==
    IF r.st # "ok" THEN Ret(r.st, r.w, a, 0)
    ELSE IF ~Mapped(r.ptr + a.items.size * es, es)
    THEN Ret("segv", r.w, a, 0)
    ELSE Ret("ok",
             [r.w EXCEPT !.mem = StoreElem(@, r.ptr + a.items.size * es, es,
                                           item)],
             [a EXCEPT !.items = [data |-> r.ptr, size |-> a.items.size + 1],
                       !.capacity = capacity],
             0)

\* array_push
array_push(w, a, item, es) ==
    IF ~ArrayAsserts(a)
    THEN Ret("fatal", w, a, 0)
    ELSE IF a.items.size + 1 > a.capacity
    THEN array_put(core_realloc(w, a.alloc, a.items.data, a.capacity * es,
                                Max(a.capacity * 2, 4) * es, es, FALSE),
                   a, Max(a.capacity * 2, 4), item, es)
    ELSE array_put(Ok(w, a.items.data), a, a.capacity, item, es)

\* array_push_slice: the memcpy of the slice into the storage r
array_put_slice(r, a, capacity, slice, es) ==
    IF r.st # "ok" THEN Ret(r.st, r.w, a, 0)
    ELSE IF ~(Mapped(r.ptr + a.items.size * es, es * slice.size)
              /\ Mapped(slice.data, es * slice.size))
    THEN Ret("segv", r.w, a, 0)
    ELSE Ret("ok",
             [r.w EXCEPT !.mem = memcpy(@, r.ptr + a.items.size * es,
                                        slice.data, es * slice.size)],
             [a EXCEPT !.items = [data |-> r.ptr,
                                  size |-> a.items.size + slice.size],
                       !.capacity = capacity],
             0)

\* array_push_slice
array_push_slice(w, a, slice, es) ==
    IF ~ArrayAsserts(a)
    THEN Ret("fatal", w, a, 0)
    ELSE IF a.items.size + slice.size > a.capacity
    THEN array_put_slice(
             core_realloc(w, a.alloc, a.items.data, a.capacity * es,
                          Max(a.capacity * 2, a.items.size + slice.size) * es,
                          es, FALSE),
             a, Max(a.capacity * 2, a.items.size + slice.size), slice, es)
    ELSE array_put_slice(Ok(w, a.items.data), a, a.capacity, slice, es)

\* array_pop
array_pop(w, a, es) ==
    IF ~(a.items.data # NULL /\ a.items.size > 0
         /\ a.items.size <= a.capacity)
    THEN Ret("fatal", w, a, 0)
    ELSE Ret("ok", w, [a EXCEPT !.items.size = @ - 1],
             LoadElem(w.mem, a.items.data + (a.items.size - 1) * es, es))

\* array_clear
array_clear(w, a) ==
    IF ~(a.items.data # NULL /\ a.items.size <= a.capacity)
    THEN Ret("fatal", w, a, 0)
    ELSE Ret("ok", w, [a EXCEPT !.items.size = 0], 0)

\* array_remove_at_unordered
array_remove_at_unordered(w, a, index, es) ==
    IF ~(index >= 0 /\ index < a.items.size)
    THEN Ret("fatal", w, a, 0)
    ELSE Ret("ok",
             [w EXCEPT !.mem =
                 memcpy(@, a.items.data + index * es,
                        a.items.data + (a.items.size - 1) * es, es)],
             [a EXCEPT !.items.size = @ - 1],
             LoadElem(w.mem, a.items.data + index * es, es))

\* array_remove_unordered: the indices its loop finds value at
Found(w, a, value, es) ==
    {i \in 0 .. (a.items.size - 1) :
        LoadElem(w.mem, a.items.data + i * es, es) = value}

\* the least member of a non-empty set of indices
First(S) == CHOOSE i \in S : \A j \in S : i <= j

\* array_remove_at_unordered(array, i); return true;
array_removed(r) == Ret(r.st, r.w, r.obj, TRUE)

\* array_remove_unordered
array_remove_unordered(w, a, value, es) ==
    IF ~(a.items.data # NULL /\ a.items.size > 0
         /\ a.items.size <= a.capacity)
    THEN Ret("fatal", w, a, FALSE)
    ELSE IF Found(w, a, value, es) # {}
    THEN array_removed(array_remove_at_unordered(
                           w, a, First(Found(w, a, value, es)), es))
    ELSE Ret("ok", w, a, FALSE)

\* array_contains
array_contains(w, a, value, es) ==
    IF ~(a.items.data # NULL /\ a.items.size > 0
         /\ a.items.size <= a.capacity)
    THEN Ret("fatal", w, a, FALSE)
    ELSE Ret("ok", w, a, Found(w, a, value, es) # {})

\* array_push_if_new: if (!array_contains(array, item)) array_push(...)
\* with c the outcome of array_contains
pushed_if_new(c, item, es) ==
    IF c.st # "ok" THEN c
    ELSE IF ~c.ret THEN array_push(c.w, c.obj, item, es)
    ELSE Ret("ok", c.w, c.obj, 0)

\* array_push_if_new
array_push_if_new(w, a, item, es) ==
    IF ~ArrayAsserts(a)
    THEN Ret("fatal", w, a, 0)
    ELSE pushed_if_new(array_contains(w, a, item, es), item, es)

\* array_remove_at: memmove of the elements after index, one slot down
array_remove_at(w, a, index, es) ==
    IF ~(index >= 0 /\ index < a.items.size)
    THEN Ret("fatal", w, a, 0)
    ELSE Ret("ok",
             [w EXCEPT !.mem =
                 memcpy(@, a.items.data + index * es,
                        a.items.data + (index + 1) * es,
                        (a.items.size - index - 1) * es)],
             a,
             LoadElem(w.mem, a.items.data + index * es, es))

\* array_last
array_last(w, a, es) ==
    IF ~(a.items.data # NULL /\ a.items.size > 0
         /\ a.items.size <= a.capacity)
    THEN Ret("fatal", w, a, 0)
    ELSE Ret("ok", w, a,
             LoadElem(w.mem, a.items.data + (a.items.size - 1) * es, es))

\* items[0 .. size) of the array a as a sequence
Items(m, a, es) ==
    [i \in 1 .. a.items.size |->
        LoadElem(m, a.items.data + (i - 1) * es, es)]

\* the sequence s without its element at the 0-based index i
RemoveAt(s, i) ==
    [k \in 1 .. (Len(s) - 1) |-> IF k <= i THEN s[k] ELSE s[k + 1]]

\* the caller's values[] holding the sequence vs
WithValues(w, vs, es) ==
    [w EXCEPT !.mem =
        [a \in Addr |->
            IF a >= Scratch /\ a < Scratch + Len(vs) * es
            THEN (vs[((a - Scratch) \div es) + 1]
                     \div (256 ^ ((a - Scratch) % es))) % 256
            ELSE @[a]]]

Push ==
    /\ Working
    /\ \E item \in Vals :
          Returned("array_push", item,
                   array_push(World, obj, item, setup.elem),
                   Append(abs, item))

PushSlice ==
    /\ Working
    /\ \E vs \in {<<>>, <<1>>, <<2, 3>>} :
          Returned("array_push_slice", vs,
                   array_push_slice(WithValues(World, vs, setup.elem), obj,
                                    [data |-> Scratch, size |-> Len(vs)],
                                    setup.elem),
                   abs \o vs)

PushIfNew ==
    /\ Working
    /\ \E item \in Vals :
          Returned("array_push_if_new", item,
                   array_push_if_new(World, obj, item, setup.elem),
                   IF \E k \in DOMAIN abs : abs[k] = item THEN abs
                   ELSE Append(abs, item))

Pop ==
    /\ Working
    /\ obj.items.size > 0
    /\ Returned("array_pop", 0, array_pop(World, obj, setup.elem),
                SubSeq(abs, 1, Len(abs) - 1))

Clear ==
    /\ Working
    /\ Returned("array_clear", 0, array_clear(World, obj), <<>>)

\* after the removals the abstract sequence is read back from the array
RemoveAtUnordered ==
    /\ Working
    /\ \E index \in 0 .. (obj.items.size - 1) :
          Returned("array_remove_at_unordered", index,
                   array_remove_at_unordered(World, obj, index, setup.elem),
                   Items(mem', obj', setup.elem))

RemoveUnordered ==
    /\ Working
    /\ \E value \in Vals :
          Returned("array_remove_unordered", value,
                   array_remove_unordered(World, obj, value, setup.elem),
                   Items(mem', obj', setup.elem))

RemoveAtOrdered ==
    /\ Working
    /\ \E index \in 0 .. (obj.items.size - 1) :
          Returned("array_remove_at", index,
                   array_remove_at(World, obj, index, setup.elem),
                   Items(mem', obj', setup.elem))

ArrayLast ==
    /\ Working
    /\ obj.items.size > 0
    /\ Returned("array_last", 0, array_last(World, obj, setup.elem), abs)

\* the caller allocates from the same arena: the array's storage is no
\* longer the arena's last allocation
allocated_beside(r, a) == Ret(r.st, r.w, a, r.ptr)

CallerAlloc ==
    /\ Working
    /\ Returned("core_alloc", 1,
                allocated_beside(core_alloc(World, proc, 1, 1), obj), abs)

\* Arena arena = arena_make(buff); Array<T> arr = array_make<T>(alloc, c)
ArrayWorlds(es) ==
    {array_init(arena_init(World0, base, ArrayBytes), "arena_alloc_proc",
                capacity, es) :
        base \in Bases, capacity \in Capacities}

InitArray ==
    /\ proc = "arena_alloc_proc"
    /\ \E es \in ElemSizes :
          /\ setup = [by |-> "array_make", alloc |-> "arena_alloc_proc",
                      context |-> "live", elem |-> es]
          /\ \E r \in ArrayWorlds(es) :
                /\ arena = r.w.arena
                /\ dyn = r.w.dyn
                /\ blocks = r.w.blocks
                /\ heap = r.w.heap
                /\ mem = r.w.mem
                /\ obj = r.obj
    /\ abs = <<>>
    /\ held = {}
    /\ covered = {}
    /\ pc = "run"
    /\ last = NoCall("Init")
    /\ nops = 0

NextArray ==
    \/ Push
    \/ PushSlice
    \/ PushIfNew
    \/ Pop
    \/ Clear
    \/ RemoveAtUnordered
    \/ RemoveUnordered
    \/ RemoveAtOrdered
    \/ ArrayLast
    \/ CallerAlloc

SpecArray == InitArray /\ [][NextArray]_vars

\* ------------------------------------------------------------------------
\* RingBuffer<T> over an arena allocator; sizeof(T) = setup.elem
\* ------------------------------------------------------------------------
RingBytes == 32
RingOps == 8

\* the struct ring_buffer_init fills from the allocation r
ring_made(r, alloc, capacity) ==
    Ret(r.st, r.w,
        [kind |-> "RingBuffer", alloc |-> alloc, data |-> r.ptr,
         capacity |-> capacity, size |-> 0, head |-> 0, tail |-> 0],
        0)

\* ring_buffer_init / ring_buffer_make
ring_buffer_init(w, capacity, alloc, es) ==
    ring_made(core_alloc(w, alloc, capacity * es, es), alloc, capacity)

\* the assertions every ring buffer operation opens with
RingAsserts(b) ==
    /\ b.tail <= b.capacity /\ b.tail >= 0
    /\ b.head < b.capacity /\ b.head >= 0
    /\ b.capacity > 0
    /\ b.data # NULL

\* "Grow" with the wrapped case left out: always one memcpy of tail - head
\* elements
ring_grow_contiguous(r, b, shift, es) ==
    IF r.st # "ok" THEN Ret(r.st, r.w, b, 0)
    ELSE Ret("ok",
             [r.w EXCEPT !.mem = memcpy(@, r.ptr + shift * es,
                                        b.data + b.head * es,
                                        es * (b.tail - b.head))],
             [b EXCEPT !.data = r.ptr, !.capacity = b.capacity * 2,
                       !.head = shift, !.tail = b.size + shift],
             0)

\* "Grow" as a Resize of the storage would leave it: the old storage copied
\* slot for slot into the new one
ring_grow_as_stored(r, b, shift, es) ==
    IF r.st # "ok" THEN Ret(r.st, r.w, b, 0)
    ELSE Ret("ok",
             [r.w EXCEPT !.mem = memcpy(@, r.ptr + shift * es, b.data,
                                        es * b.capacity)],
             [b EXCEPT !.data = r.ptr, !.capacity = b.capacity * 2,
                       !.head = shift, !.tail = b.size + shift],
             0)

\* "Grow": the elements copied head first into the new storage r, starting
\* at slot shift (0 in push_end, 1 in push_front)
ring_grow(r, b, shift, es) ==
    IF r.st # "ok" THEN Ret(r.st, r.w, b, 0)
    ELSE IF ~(Mapped(r.ptr, 2 * b.capacity * es)
              /\ Mapped(b.data, b.capacity * es))
    THEN Ret("segv", r.w, b, 0)
    ELSE Ret("ok",
             [r.w EXCEPT !.mem =
                 IF b.head < b.tail
                 THEN memcpy(@, r.ptr + shift * es, b.data + b.head * es,
                             es * (b.tail - b.head))
                 ELSE memcpy(memcpy(@, r.ptr + shift * es,
                                    b.data + b.head * es,
                                    es * (b.capacity - b.head)),
                             r.ptr + (b.capacity - b.head + shift) * es,
                             b.data, es * b.tail)],
             [b EXCEPT !.data = r.ptr, !.capacity = b.capacity * 2,
                       !.head = shift, !.tail = b.size + shift],
             0)

\* ring_buffer_push_end past the growth: size += 1 and the store at tail
ring_put_end(r, value, es) ==
    IF r.st # "ok" THEN r
    ELSE IF r.obj.tail = r.obj.capacity
    THEN Ret("ok", [r.w EXCEPT !.mem = StoreElem(@, r.obj.data, es, value)],
             [r.obj EXCEPT !.size = @ + 1, !.tail = 1], 0)
    ELSE Ret("ok",
             [r.w EXCEPT !.mem = StoreElem(@, r.obj.data + r.obj.tail * es,
                                           es, value)],
             [r.obj EXCEPT !.size = @ + 1, !.tail = @ + 1], 0)

\* ring_buffer_push_end
ring_buffer_push_end(w, b, value, es) ==
    IF ~RingAsserts(b)
    THEN Ret("fatal", w, b, 0)
    ELSE IF b.size = b.capacity
    THEN ring_put_end(ring_grow(core_alloc(w, b.alloc, b.capacity * 2 * es,
                                           es),
                                b, 0, es),
                      value, es)
    ELSE ring_put_end(Ret("ok", w, b, 0), value, es)

\* the slot before head, around the end of the storage
HeadBefore(b) == IF b.head = 0 THEN b.capacity - 1 ELSE b.head - 1

\* ring_buffer_push_front past the growth: head steps back, size += 1 and
\* the store at head
ring_put_front(r, value, es) ==
    IF r.st # "ok" THEN r
    ELSE Ret("ok",
             [r.w EXCEPT !.mem =
                 StoreElem(@, r.obj.data + HeadBefore(r.obj) * es, es,
                           value)],
             [r.obj EXCEPT !.size = @ + 1, !.head = HeadBefore(r.obj)], 0)

\* ring_buffer_push_front
ring_buffer_push_front(w, b, value, es) ==
    IF ~RingAsserts(b)
    THEN Ret("fatal", w, b, 0)
    ELSE IF b.size = b.capacity
    THEN ring_put_front(ring_grow(core_alloc(w, b.alloc,
                                             b.capacity * 2 * es, es),
                                  b, 1, es),
                        value, es)
    ELSE ring_put_front(Ret("ok", w, b, 0), value, es)

\* ring_buffer_pop_front whose head runs past the end of the storage
ring_buffer_pop_front_no_wrap(w, b, es) ==
    IF ~(RingAsserts(b) /\ b.size > 0)
    THEN Ret("fatal", w, b, 0)
    ELSE Ret("ok", w, [b EXCEPT !.head = b.head + 1, !.size = @ - 1],
             LoadElem(w.mem, b.data + b.head * es, es))

\* ring_buffer_pop_front
ring_buffer_pop_front(w, b, es) ==
    IF ~(RingAsserts(b) /\ b.size > 0)
    THEN Ret("fatal", w, b, 0)
    ELSE Ret("ok", w,
             [b EXCEPT !.head = (b.head + 1) % b.capacity, !.size = @ - 1],
             LoadElem(w.mem, b.data + b.head * es, es))

\* ring_buffer_pop_end
ring_buffer_pop_end(w, b, es) ==
    IF ~(RingAsserts(b) /\ b.size > 0)
    THEN Ret("fatal", w, b, 0)
    ELSE Ret("ok", w,
             [b EXCEPT !.tail = (b.tail - 1 + b.capacity) % b.capacity,
                       !.size = @ - 1],
             LoadElem(w.mem,
                      b.data + ((b.tail - 1 + b.capacity) % b.capacity) * es,
                      es))

\* RingBuffer::operator[]
ring_index(w, b, index, es) ==
    IF ~(index >= 0 /\ index < b.size)
    THEN Ret("fatal", w, b, 0)
    ELSE Ret("ok", w, b,
             LoadElem(w.mem, b.data + ((b.head + index) % b.capacity) * es,
                      es))

RingWorking == pc = "run" /\ nops < RingOps

\* the value pushed is the number of the call, so that every element of
\* the buffer is told from every other
PushEnd ==
    /\ RingWorking
    /\ Returned("ring_buffer_push_end", nops + 1,
                ring_buffer_push_end(World, obj, nops + 1, setup.elem),
                Append(abs, nops + 1))

PushFront ==
    /\ RingWorking
    /\ Returned("ring_buffer_push_front", nops + 1,
                ring_buffer_push_front(World, obj, nops + 1, setup.elem),
                <<nops + 1>> \o abs)

PopFront ==
    /\ RingWorking
    /\ obj.size > 0
    /\ Returned("ring_buffer_pop_front", 0,
                ring_buffer_pop_front(World, obj, setup.elem),
                SubSeq(abs, 2, Len(abs)))

PopEnd ==
    /\ RingWorking
    /\ obj.size > 0
    /\ Returned("ring_buffer_pop_end", 0,
                ring_buffer_pop_end(World, obj, setup.elem),
                SubSeq(abs, 1, Len(abs) - 1))

\* Arena arena = arena_make(buff); ring_buffer_make<T>(c, alloc)
RingWorlds(es) ==
    {ring_buffer_init(arena_init(World0, base, RingBytes), capacity,
                      "arena_alloc_proc", es) :
        base \in Bases, capacity \in Capacities}

InitRing ==
    /\ proc = "arena_alloc_proc"
    /\ \E es \in ElemSizes :
          /\ setup = [by |-> "ring_buffer_make", alloc |-> "arena_alloc_proc",
                      context |-> "live", elem |-> es]
          /\ \E r \in RingWorlds(es) :
                /\ arena = r.w.arena
                /\ dyn = r.w.dyn
                /\ blocks = r.w.blocks
                /\ heap = r.w.heap
                /\ mem = r.w.mem
                /\ obj = r.obj
    /\ abs = <<>>
    /\ held = {}
    /\ covered = {}
    /\ pc = "run"
    /\ last = NoCall("Init")
    /\ nops = 0

NextRing ==
    \/ PushEnd
    \/ PushFront
    \/ PopFront
    \/ PopEnd

SpecRing == InitRing /\ [][NextRing]_vars

\* ------------------------------------------------------------------------
\* BitSet: two bit sets of one size made from an arena allocator
\* ------------------------------------------------------------------------
BitBytes == 32
BitOps == 3
BitSizes == {5, 33, 70, 90, 128}

\* the bit indices the program sets and clears, of a set of n bits
BitIndexes(n) == {i \in {0, 66, 100, n - 1} : i >= 0 /\ i < n}

\* what an access outside the memory of the program finds: a fault, or a
\* stray byte that is read (a stray write lands outside the bit sets)
Strays == [fault : BOOLEAN, byte : {0, 255}]

\* x op y on n-bit operands, op one of "&", "|", "^"
RECURSIVE BitsOp(_, _, _, _)
BitsOp(op, x, y, n) ==
    IF n = 0 THEN 0
    ELSE (CASE op = "&" -> IF x % 2 = 1 /\ y % 2 = 1 THEN 1 ELSE 0
            [] op = "|" -> IF x % 2 = 1 \/ y % 2 = 1 THEN 1 ELSE 0
            [] op = "^" -> IF x % 2 # y % 2 THEN 1 ELSE 0)
         + 2 * BitsOp(op, x \div 2, y \div 2, n - 1)

\* on u8 operands
ByteOp(op, x, y) == BitsOp(op, x, y, 8)

\* __builtin_popcountll
RECURSIVE PopCount(_)
PopCount(x) == IF x = 0 THEN 0 ELSE (x % 2) + PopCount(x \div 2)

\* the struct bit_set_init fills from the allocation r
bit_set_made(r, size) == Ret(r.st, r.w, [data |-> r.ptr, size |-> size], 0)

\* bit_set_init / bit_set_make: (size + 7) / 8 bytes aligned to sizeof(u64)
bit_set_init(w, size, alloc) ==
    IF ~(size >= 0)
    THEN Ret("fatal", w, [data |-> NULL, size |-> 0], 0)
    ELSE bit_set_made(core_alloc(w, alloc, (size + 7) \div 8, 8), size)

\* bit_set_set
bit_set_set(w, s, index) ==
    IF ~(index >= 0 /\ index < s.size)
    THEN Ret("fatal", w, s, 0)
    ELSE Ret("ok",
             [w EXCEPT !.mem[s.data + (index \div 8)] =
                           ByteOp("|", @, 2 ^ (index % 8))],
             s, 0)

\* bit_set_clear
bit_set_clear(w, s, index) ==
    IF ~(index >= 0 /\ index < s.size)
    THEN Ret("fatal", w, s, 0)
    ELSE Ret("ok",
             [w EXCEPT !.mem[s.data + (index \div 8)] =
                           ByteOp("&", @, 255 - 2 ^ (index % 8))],
             s, 0)

\* bit_set_get
bit_set_get(m, s, index) ==
    ByteOp("&", m[s.data + (index \div 8)], 2 ^ (index % 8)) # 0

\* bit_set_not, the bytes it leaves: a->data[i] = ~a->data[i] for every
\* byte, then a->data[bytes - 1] &= ~mask with mask = (1 << last_bits) - 1
not_bytes(m, s, bytes, last_bits) ==
    [q \in Addr |->
        IF q < s.data \/ q >= s.data + bytes THEN m[q]
        ELSE IF q = s.data + bytes - 1 /\ last_bits > 0
        THEN ((255 - m[q]) \div (2 ^ last_bits)) * (2 ^ last_bits)
        ELSE 255 - m[q]]

\* bit_set_not
bit_set_not(w, s) ==
    Ret("ok",
        [w EXCEPT !.mem = not_bytes(w.mem, s, (s.size + 7) \div 8,
                                    s.size % 8)],
        s, 0)

\* the byte a load from address q finds
ReadByte(m, q, ub) == IF q \in Addr THEN m[q] ELSE ub.byte

\* *a_data = *a_data op b_data on words of k bytes at qa and qb, byte by
\* byte; s is the loop's state: outcome, memory, addresses written, i
RECURSIVE word_op(_, _, _, _, _, _)
word_op(s, qa, qb, k, op, ub) ==
    IF k = 0 \/ s.st # "ok" THEN s
    ELSE IF (qa \notin Addr \/ qb \notin Addr) /\ ub.fault
    THEN [s EXCEPT !.st = "segv"]
    ELSE word_op([s EXCEPT
                     !.mem = IF qa \in Addr
                             THEN [@ EXCEPT ![qa] =
                                      ByteOp(op, @, ReadByte(s.mem, qb, ub))]
                             ELSE @,
                     !.writes = @ \cup {qa}],
                 qa + 1, qb + 1, k - 1, op, ub)

\* while (bytes - i >= k) { ((uk*)a->data)[i] op= ((uk*)b->data)[i];
\* i += k; } for the word size k: element i of an array of k-byte words
\* lies at byte k * i
RECURSIVE combine_words(_, _, _, _, _, _, _)
combine_words(s, a, b, bytes, op, k, ub) ==
    IF s.st # "ok" \/ ~(bytes - s.i >= k) THEN s
    ELSE combine_words(
             [word_op(s, a.data + k * s.i, b.data + k * s.i, k, op, ub)
                 EXCEPT !.i = @ + k],
             a, b, bytes, op, k, ub)

\* what the combine loop leaves
combined(s, w, o) == Ret(s.st, [w EXCEPT !.mem = s.mem], o, s.writes)

\* bit_set_combine_loop(op): the u64 loop, the u32 loop, the byte loop
bit_set_combine_loop(w, o, op, ub) ==
    IF ~(o.a.size = o.b.size)
    THEN Ret("fatal", w, o, {})
    ELSE combined(
             combine_words(
                 combine_words(
                     combine_words([st |-> "ok", mem |-> w.mem,
                                    writes |-> {}, i |-> 0],
                                   o.a, o.b, (o.a.size + 7) \div 8, op, 8,
                                   ub),
                     o.a, o.b, (o.a.size + 7) \div 8, op, 4, ub),
                 o.a, o.b, (o.a.size + 7) \div 8, op, 1, ub),
             w, o)

\* the population count of the n bytes at q; s is outcome and count
RECURSIVE count_bytes(_, _, _, _, _)
count_bytes(s, m, q, n, ub) ==
    IF n = 0 \/ s.st # "ok" THEN s
    ELSE IF q \notin Addr /\ ub.fault
    THEN [s EXCEPT !.st = "segv"]
    ELSE count_bytes([s EXCEPT !.count = @ + PopCount(ReadByte(m, q, ub))],
                     m, q + 1, n - 1, ub)

\* while (bytes - i >= 8) { u64 value = ((u64*)(a->data))[i];
\* count += __builtin_popcountll(value); i += 8; }
RECURSIVE count_words(_, _, _, _, _)
count_words(s, m, a, bytes, ub) ==
    IF s.st # "ok" \/ ~(bytes - s.i >= 8) THEN s
    ELSE count_words([count_bytes(s, m, a.data + 8 * s.i, 8, ub)
                         EXCEPT !.i = @ + 8],
                     m, a, bytes, ub)

\* the rest of bit_set_count: the bytes - i < 8 bytes at a->data + i
count_rest(s, m, a, bytes, ub) ==
    IF s.st # "ok" \/ ~(bytes - s.i > 0) THEN s
    ELSE IF ~(bytes - s.i < 8) THEN [s EXCEPT !.st = "fatal"]
    ELSE count_bytes(s, m, a.data + s.i, bytes - s.i, ub)

counted(s, w, o) == Ret(s.st, w, o, s.count)

\* bit_set_count
bit_set_count(w, o, ub) ==
    counted(count_rest(count_words([st |-> "ok", count |-> 0, i |-> 0],
                                   w.mem, o.a, (o.a.size + 7) \div 8, ub),
                       w.mem, o.a, (o.a.size + 7) \div 8, ub),
            w, o)

\* the indices at which bit_set_get finds the bit set s set
Bits(m, s) == {i \in 0 .. (s.size - 1) : bit_set_get(m, s, i)}

\* the two sets of indices the bit sets stand for
BitsOf(m, o) == [a |-> Bits(m, o.a), b |-> Bits(m, o.b)]

\* the operation on one of the two bit sets, as an outcome for the pair
on_set(r, o) == Ret(r.st, r.w, o, 0)

BitWorking == pc = "run" /\ nops < BitOps

SetBit ==
    /\ BitWorking
    /\ \E which \in {"a", "b"}, index \in BitIndexes(obj.a.size) :
          Returned("bit_set_set", [set |-> which, index |-> index],
                   on_set(bit_set_set(World, obj[which], index), obj),
                   [BitsOf(mem, obj) EXCEPT ![which] = @ \cup {index}])

ClearBit ==
    /\ BitWorking
    /\ \E which \in {"a", "b"}, index \in BitIndexes(obj.a.size) :
          Returned("bit_set_clear", [set |-> which, index |-> index],
                   on_set(bit_set_clear(World, obj[which], index), obj),
                   [BitsOf(mem, obj) EXCEPT ![which] = @ \ {index}])

\* bit_set_and / bit_set_or / bit_set_xor (&a, &b)
Combine ==
    /\ BitWorking
    /\ \E op \in {"&", "|", "^"}, ub \in Strays :
          Returned("bit_set_combine", op,
                   bit_set_combine_loop(World, obj, op, ub),
                   [BitsOf(mem, obj) EXCEPT !.a =
                       CASE op = "&" -> @ \cap Bits(mem, obj.b)
                         [] op = "|" -> @ \cup Bits(mem, obj.b)
                         [] op = "^" -> (@ \ Bits(mem, obj.b))
                                         \cup (Bits(mem, obj.b) \ @)])

\* bit_set_not(&a)
Not ==
    /\ BitWorking
    /\ Returned("bit_set_not", 0, on_set(bit_set_not(World, obj.a), obj),
                [BitsOf(mem, obj) EXCEPT
                    !.a = (0 .. (obj.a.size - 1)) \ @])

CountBits ==
    /\ BitWorking
    /\ \E ub \in Strays :
          Returned("bit_set_count", 0, bit_set_count(World, obj, ub),
                   BitsOf(mem, obj))

InitBitSet ==
    /\ proc = "arena_alloc_proc"
    /\ setup = [by |-> "bit_set_make", alloc |-> "arena_alloc_proc",
                context |-> "live", elem |-> 1]
    /\ \E base \in Bases, n \in BitSizes :
          \E ra \in {bit_set_init(arena_init(World0, base, BitBytes), n,
                                  "arena_alloc_proc")} :
             \E rb \in {bit_set_init(ra.w, n, "arena_alloc_proc")} :
                /\ arena = rb.w.arena
                /\ dyn = rb.w.dyn
                /\ blocks = rb.w.blocks
                /\ heap = rb.w.heap
                /\ mem = rb.w.mem
                /\ obj = [kind |-> "BitSet", a |-> ra.obj, b |-> rb.obj]
    /\ abs = [a |-> {}, b |-> {}]
    /\ held = {}
    /\ covered = {}
    /\ pc = "run"
    /\ last = NoCall("Init")
    /\ nops = 0

NextBitSet ==
    \/ SetBit
    \/ ClearBit
    \/ Combine
    \/ Not
    \/ CountBits

SpecBitSet == InitBitSet /\ [][NextBitSet]_vars

\* ------------------------------------------------------------------------
\* String: views into a NUL-terminated text
\* ------------------------------------------------------------------------
MaxText == 2
StringOps == 3

\* the code points of the texts: 'a', U+00E9, U+4E16, U+1F642
Runes == {97, 233, 19990, 128578}

\* where the text lies in memory
TextAt == 2 * MaxAlign

\* rune_to_cstr without the terminating NUL: the UTF-8 bytes of a code point
rune_to_cstr(r) ==
    IF r < 128 THEN <<r>>
    ELSE IF r < 2048 THEN <<192 + (r \div 64), 128 + (r % 64)>>
    ELSE IF r < 65536
    THEN <<224 + (r \div 4096), 128 + ((r \div 64) % 64), 128 + (r % 64)>>
    ELSE <<240 + (r \div 262144), 128 + ((r \div 4096) % 64),
           128 + ((r \div 64) % 64), 128 + (r % 64)>>

\* the bytes of a text given as its code points
RECURSIVE Utf8(_)
Utf8(rs) == IF rs = <<>> THEN <<>> ELSE rune_to_cstr(Head(rs)) \o Utf8(Tail(rs))

\* cstr_read_utf8_codepoint: the length the lead byte c announces, 0 for a
\* byte that leads nothing
RuneLen(c) ==
    IF c < 128 THEN 1
    ELSE IF ByteOp("&", c, 224) = 192 THEN 2
    ELSE IF ByteOp("&", c, 240) = 224 THEN 3
    ELSE IF ByteOp("&", c, 248) = 240 THEN 4
    ELSE 0

\* from byte k on, the bytes bs are whole code points
RECURSIVE Utf8Valid(_, _)
Utf8Valid(bs, k) ==
    \/ k > Len(bs)
    \/ /\ RuneLen(bs[k]) > 0
       /\ k + RuneLen(bs[k]) - 1 <= Len(bs)
       /\ \A j \in (k + 1) .. (k + RuneLen(bs[k]) - 1) :
             ByteOp("&", bs[j], 192) = 128
       /\ Utf8Valid(bs, k + RuneLen(bs[k]))

\* the number of code points in the valid bytes bs from byte k on
RECURSIVE Utf8Count(_, _)
Utf8Count(bs, k) ==
    IF k > Len(bs) THEN 0 ELSE 1 + Utf8Count(bs, k + RuneLen(bs[k]))

\* the literal: its bytes and a NUL at TextAt
WithText(w, bs) ==
    [w EXCEPT !.mem = [a \in Addr |->
        IF a >= TextAt /\ a < TextAt + Len(bs) THEN bs[a - TextAt + 1]
        ELSE IF a = TextAt + Len(bs) THEN 0
        ELSE @[a]]]

\* strlen; a scan that leaves the memory faults
RECURSIVE strlen(_, _)
strlen(m, p) ==
    IF p \notin Addr THEN 0 ELSE IF m[p] = 0 THEN 0 ELSE 1 + strlen(m, p + 1)

\* string_from_cstr
string_from_cstr(w, cstr) ==
    Ret("ok", w, [kind |-> "String", data |-> cstr,
                  size |-> strlen(w.mem, cstr)], 0)

\* string_from_parts
string_from_parts(w, data, size) ==
    Ret("ok", w, [kind |-> "String", data |-> data, size |-> size], 0)

\* string_substr
string_substr(w, str, start, count) ==
    IF ~(start >= 0 /\ start + count <= str.size)
    THEN Ret("fatal", w, str, 0)
    ELSE Ret("ok", w, [kind |-> "String", data |-> str.data + start,
                       size |-> count], 0)

\* string_utf8_size: while (*s) count += (*s++ & 0xC0) != 0x80;
\* r is the outcome so far, its ret the count
RECURSIVE utf8_scan(_, _)
utf8_scan(r, s) ==
    IF s \notin Addr THEN Ret("segv", r.w, r.obj, r.ret)
    ELSE IF r.w.mem[s] = 0 THEN r
    ELSE utf8_scan(Ret("ok", r.w, r.obj,
                       r.ret + (IF ByteOp("&", r.w.mem[s], 192) # 128
                                THEN 1 ELSE 0)),
                   s + 1)

\* string_utf8_size
string_utf8_size(w, str) == utf8_scan(Ret("ok", w, str, 0), str.data)

\* the bytes a String views
Viewed(m, str) == [i \in 1 .. str.size |-> m[str.data + i - 1]]

StringWorking == pc = "run" /\ nops < StringOps

Substr ==
    /\ StringWorking
    /\ \E start \in 0 .. obj.size, count \in 0 .. obj.size :
          /\ start + count <= obj.size
          /\ Returned("string_substr", [start |-> start, count |-> count],
                      string_substr(World, obj, start, count), abs)

FromParts ==
    /\ StringWorking
    /\ \E start \in 0 .. Len(Utf8(abs)), size \in 0 .. Len(Utf8(abs)) :
          /\ start + size <= Len(Utf8(abs))
          /\ Returned("string_from_parts",
                      [start |-> start, count |-> size],
                      string_from_parts(World, TextAt + start, size), abs)

Utf8Size ==
    /\ StringWorking
    /\ Returned("string_utf8_size", 0, string_utf8_size(World, obj), abs)

\* the texts: up to MaxText code points
Texts == UNION {[1 .. n -> Runes] : n \in 0 .. MaxText}

InitString ==
    /\ proc = "c_allocator_proc"
    /\ setup = [by |-> "string_from_cstr", alloc |-> "c_allocator_proc",
                context |-> "live", elem |-> 1]
    /\ abs \in Texts
    /\ \E r \in {string_from_cstr(WithText(World0, Utf8(abs)), TextAt)} :
          /\ arena = r.w.arena
          /\ dyn = r.w.dyn
          /\ blocks = r.w.blocks
          /\ heap = r.w.heap
          /\ mem = r.w.mem
          /\ obj = r.obj
    /\ held = {}
    /\ covered = {}
    /\ pc = "run"
    /\ last = NoCall("Init")
    /\ nops = 0

NextString ==
    \/ Substr
    \/ FromParts
    \/ Utf8Size

SpecString == InitString /\ [][NextString]_vars

\* ------------------------------------------------------------------------
\* Two containers made from one arena allocator: an Array<T> and, after it,
\* a second Array<T> or a RingBuffer<T>
\* ------------------------------------------------------------------------
SharedBytes == 30
SharedOps == 4

\* a call on the first container leaves the second as it was
in_first(r, o) == Ret(r.st, r.w, [o EXCEPT !.first = r.obj], r.ret)

\* a call on the second container leaves the first as it was
in_second(r, o) == Ret(r.st, r.w, [o EXCEPT !.second = r.obj], r.ret)

\* array_push or ring_buffer_push_end, as the container c is an Array or a
\* RingBuffer
container_push(w, c, value, es) ==
    IF c.kind = "Array" THEN array_push(w, c, value, es)
    ELSE ring_buffer_push_end(w, c, value, es)

\* the two containers side by side, the second made in the world the first
\* was made in
made_beside(r1, r2) ==
    Ret(r2.st, r2.w, [kind |-> "Shared", first |-> r1.obj, second |-> r2.obj],
        0)

second_init(r1, kind, capacity, es) ==
    made_beside(r1,
                IF kind = "Array"
                THEN array_init(r1.w, "arena_alloc_proc", capacity, es)
                ELSE ring_buffer_init(r1.w, capacity, "arena_alloc_proc", es))

\* Arena arena = arena_make(buff); Array<T> a = array_make<T>(alloc, c1);
\* then array_make<T>(alloc, c2) or ring_buffer_make<T>(c2, alloc)
SharedWorlds(es) ==
    {second_init(array_init(arena_init(World0, base, SharedBytes),
                            "arena_alloc_proc", c1, es),
                 kind, c2, es) :
        base \in Bases, c1 \in Capacities, c2 \in Capacities,
        kind \in {"Array", "RingBuffer"}}

SharedWorking == pc = "run" /\ nops < SharedOps

\* the value pushed is the number of the call
PushFirst ==
    /\ SharedWorking
    /\ Returned("push", [on |-> "first", value |-> nops + 1],
                in_first(container_push(World, obj.first, nops + 1,
                                        setup.elem), obj),
                [abs EXCEPT !.first = Append(@, nops + 1)])

PushSecond ==
    /\ SharedWorking
    /\ Returned("push", [on |-> "second", value |-> nops + 1],
                in_second(container_push(World, obj.second, nops + 1,
                                         setup.elem), obj),
                [abs EXCEPT !.second = Append(@, nops + 1)])

InitShared ==
    /\ proc = "arena_alloc_proc"
    /\ \E es \in ElemSizes :
          /\ setup = [by |-> "array_make", alloc |-> "arena_alloc_proc",
                      context |-> "live", elem |-> es]
          /\ \E r \in SharedWorlds(es) :
                /\ arena = r.w.arena
                /\ dyn = r.w.dyn
                /\ blocks = r.w.blocks
                /\ heap = r.w.heap
                /\ mem = r.w.mem
                /\ obj = r.obj
    /\ abs = [first |-> <<>>, second |-> <<>>]
    /\ held = {}
    /\ covered = {}
    /\ pc = "run"
    /\ last = NoCall("Init")
    /\ nops = 0

NextShared == PushFirst \/ PushSecond

SpecShared == InitShared /\ [][NextShared]_vars

\* ------------------------------------------------------------------------
\* Properties
\* ------------------------------------------------------------------------
IsArena == proc = "arena_alloc_proc"
IsDynamic == proc = "dynamic_arena_alloc_proc"
IsHeap == proc = "c_allocator_proc"

\* the least multiple of a that is >= x
RoundUp(x, a) == CHOOSE m \in x .. (x + a - 1) : m % a = 0

\* the last step was the call op, and the state is the one it left
Did(op) == last.call.op = op

\* the pointer handed to the last resize satisfies its alignment argument
OldAligned == last.call.old_memory % last.call.alignment = 0

\* the pointer handed to the last resize lies where an allocate with the
\* resize's alignment places a region: at an aligned offset of a linear
\* arena's buffer, at an aligned address of a dynamic arena's block
OldPlaced ==
    IF proc = "arena_alloc_proc"
    THEN (last.call.old_memory - arena.data) % last.call.alignment = 0
    ELSE OldAligned

\* the start of the buffer the bump cursor ran over before the last call
Start0 == IF IsArena THEN arena.data
          ELSE IF last.current0 = NULL THEN NULL
          ELSE last.blocks0[last.current0].data

\* the last call resized the most recent allocation
WasTail ==
    /\ Did("Resize")
    /\ last.call.old_memory # NULL
    /\ last.call.old_memory = Start0 + last.cursor0 - last.call.old_size

AllZero(p, lo, hi) == \A i \in lo .. (hi - 1) : mem[p + i] = 0

\* C1: a linear arena's offset stays within 0 .. capacity after any sequence
\* of allocate, resize, free and reset calls.
C1_OffsetInBounds ==
    IsArena => (0 <= arena.offset /\ arena.offset <= arena.size)

\* C2: an allocate that fits returns buffer_start + round_up(offset,
\* alignment) and leaves offset = round_up(offset, alignment) + size.
C2_AllocBumps ==
    (IsArena /\ Did("Alloc")
        /\ RoundUp(last.cursor0, last.call.alignment) + last.call.size
               <= arena.size)
    => /\ last.st = "ok"
       /\ last.ptr = arena.data + RoundUp(last.cursor0, last.call.alignment)
       /\ arena.offset = RoundUp(last.cursor0, last.call.alignment)
                             + last.call.size

C2_Witness ==
    /\ IsArena /\ Did("Alloc") /\ last.st = "ok"
    /\ last.call.size > 0
    /\ last.cursor0 > 0
    /\ last.ptr > arena.data + last.cursor0

\* C3: an allocate, or an in-place resize of the last allocation, that does
\* not fit in the capacity ends in the fatal assertion and leaves the offset
\* and every byte as they were.
C3_OutOfMemoryFatal ==
    [][(IsArena /\ pc = "run")
       => /\ (last'.call.op = "Alloc"
               /\ RoundUp(arena.offset, last'.call.alignment)
                      + last'.call.size > arena.size)
             => (pc' = "fatal" /\ arena' = arena /\ mem' = mem)
          /\ (last'.call.op = "Resize"
               /\ last'.call.old_memory # NULL
               /\ last'.call.old_memory
                      = arena.data + arena.offset - last'.call.old_size
               /\ arena.offset - last'.call.old_size + last'.call.size
                      > arena.size)
             => (pc' = "fatal" /\ arena' = arena /\ mem' = mem)]_vars

C3_Witness ==
    /\ IsArena /\ pc = "fatal" /\ WasTail /\ OldAligned
    /\ last.cursor0 - last.call.old_size + last.call.size > arena.size

\* C4: a resize of the last allocation to a larger size that fits returns the
\* same pointer and moves offset by new_size - old_size.  The old pointer is
\* one an allocate with the resize's alignment returns.
C4_TailResizeInPlace ==
    (IsArena /\ WasTail /\ OldPlaced
        /\ last.call.old_size > 0
        /\ last.call.size > last.call.old_size
        /\ last.cursor0 - last.call.old_size + last.call.size <= arena.size)
    => /\ last.st = "ok"
       /\ last.ptr = last.call.old_memory
       /\ arena.offset = last.cursor0 + (last.call.size - last.call.old_size)

\* C5: a resize of an allocation after which another non-empty allocation was
\* made returns a different pointer at round_up(offset, alignment) holding
\* the old content, leaves offset = round_up(offset, alignment) + new_size,
\* and leaves the old region as it was.  The old pointer is one an allocate
\* with the resize's alignment returns.
C5_NonTailResizeCopies ==
    (IsArena /\ Did("Resize") /\ last.covered0 /\ OldPlaced
        /\ last.call.old_size > 0
        /\ RoundUp(last.cursor0, last.call.alignment) + last.call.size
               <= arena.size)
    => /\ last.st = "ok"
       /\ last.ptr # last.call.old_memory
       /\ last.ptr = arena.data + RoundUp(last.cursor0, last.call.alignment)
       /\ arena.offset = RoundUp(last.cursor0, last.call.alignment)
                             + last.call.size
       /\ Bytes(mem, last.ptr, last.call.old_size) = last.old
       /\ Bytes(mem, last.call.old_memory, last.call.old_size) = last.old

\* C6: allocate on a linear arena returns a region whose bytes are all zero,
\* whatever allocate, resize, free and reset calls came before.
C6_AllocateZeroed ==
    (IsArena /\ Did("Alloc") /\ last.st = "ok")
    => AllZero(last.ptr, 0, last.call.size)

\* C7: when resize on a linear or dynamic arena returns a larger region, in
\* place or by copy, the bytes old_size .. new_size-1 of it are zero.
C7_GrowZeroFills ==
    ((IsArena \/ IsDynamic) /\ Did("Resize") /\ last.st = "ok"
        /\ last.call.size > last.call.old_size)
    => AllZero(last.ptr, last.call.old_size, last.call.size)

\* C8: a resize of the last allocation of a linear arena, or of a dynamic
\* arena's current block, to a smaller size returns the same pointer, moves
\* the bump cursor back by old_size - new_size and leaves the bytes
\* new_size .. old_size-1 of the region zero.  The old pointer is one an
\* allocate with the resize's alignment returns.
C8_ShrinkZeroesTail ==
    ((IsArena \/ IsDynamic) /\ WasTail /\ OldPlaced
        /\ last.call.size < last.call.old_size)
    => /\ last.st = "ok"
       /\ last.ptr = last.call.old_memory
       /\ dyn.current = last.current0
       /\ Cursor(World) = last.cursor0 - (last.call.old_size - last.call.size)
       /\ AllZero(last.ptr, last.call.size, last.call.old_size)

\* C9: a resize through the malloc adapter, growing or shrinking, returns a
\* region whose first min(old_size, new_size) bytes are the old content, and
\* writes no byte outside the region it returns.
C9_HeapResizePreserves ==
    [][(IsHeap /\ last'.call.op = "Resize" /\ last'.call.old_memory # NULL
           /\ last'.st # "fatal")
       => /\ last'.st = "ok"
          /\ \A i \in 0 .. (Min(last'.call.old_size, last'.call.size) - 1) :
                 mem'[last'.ptr + i] = mem[last'.call.old_memory + i]
          /\ \A a \in Addr :
                 mem'[a] # mem[a]
                 => (a >= last'.ptr /\ a < last'.ptr + last'.call.size)]_vars

\* C10: every allocate or resize on a linear arena, over a buffer at any
\* base address, returns an address that is 0 modulo the alignment.
C10_ArenaAligned ==
    (IsArena /\ (Did("Alloc") \/ Did("Resize")) /\ last.st = "ok")
    => last.ptr % last.call.alignment = 0

\* a positive power of two
IsPowerOfTwo(a) == \E k \in 0 .. WordBits : a = 2 ^ k

\* C11: every allocate or resize on a dynamic arena, served in the current
\* block or by a new block, returns an address that is 0 modulo the
\* alignment.
C11_DynamicAligned ==
    (IsDynamic /\ (Did("Alloc") \/ Did("Resize")) /\ last.st = "ok")
    => last.ptr % last.call.alignment = 0

\* C12: an allocate whose alignment is not a positive power of two ends in
\* the fatal assertion of core_alloc and leaves the allocator's state as it
\* was.
C12_BadAlignmentFatal ==
    [][(pc = "run" /\ last'.call.op = "Alloc"
           /\ ~IsPowerOfTwo(last'.call.alignment))
       => (pc' = "fatal" /\ arena' = arena /\ dyn' = dyn /\ blocks' = blocks
           /\ heap' = heap /\ mem' = mem)]_vars

\* C13: an allocate with a negative size on a linear or dynamic arena ends in
\* a fatal assertion and leaves the bump cursor where it was.
C13_NegativeSizeFatal ==
    ((IsArena \/ IsDynamic) /\ Did("Alloc") /\ last.call.size < 0
        /\ IsPowerOfTwo(last.call.alignment))
    => (last.st = "fatal" /\ Cursor(World) = last.cursor0)

\* C14: a dynamic arena made with dynamic_arena_make(B, A) or
\* dynamic_arena_init(arena, B, A) takes its blocks from A; when A is a
\* linear arena, making the dynamic arena advances that arena's offset.
C14_BackingAllocatorUsed ==
    IsDynamic
    => /\ dyn.alloc = setup.alloc
       /\ (setup.alloc = "arena_alloc_proc" /\ nops = 0) => arena.offset > 0

\* the dynamic arena has been destroyed: no block of it is left
Destroyed == DOMAIN blocks = {}

\* following prev from block b ends at null within fuel steps
RECURSIVE Reaches(_, _, _)
Reaches(bs, b, fuel) ==
    IF b = NULL THEN TRUE
    ELSE IF fuel = 0 \/ b \notin DOMAIN bs THEN FALSE
    ELSE Reaches(bs, bs[b].prev, fuel - 1)

\* C15: while a dynamic arena is alive, current is not null, every block has
\* 0 <= size <= capacity, and the prev links from current visit each block
\* once and end at a block whose prev is null.
C15_DynamicInvariant ==
    (IsDynamic /\ ~Destroyed)
    => /\ dyn.current # NULL
       /\ \A b \in DOMAIN blocks :
              0 <= blocks[b].size /\ blocks[b].size <= blocks[b].capacity
       /\ Reaches(blocks, dyn.current, Cardinality(DOMAIN blocks))

C15_Witness ==
    /\ IsDynamic /\ pc = "run"
    /\ dyn.current # NULL
    /\ blocks[dyn.current].prev # NULL
    /\ blocks[dyn.current].size > 0
    /\ blocks[blocks[dyn.current].prev].size > 0

\* C16: an allocate on a dynamic arena whose aligned request fits in the
\* current block is served there and creates no block; otherwise one new
\* block of capacity max(block_size_min, size) is created with prev = the
\* old current and size = size, the older blocks keep their sizes, and the
\* returned region is zero-filled.
C16_DynamicAllocate ==
    (IsDynamic /\ Did("Alloc") /\ last.current0 # NULL)
    => LET cur0 == last.blocks0[last.current0]
           result == RoundUp(cur0.data + cur0.size, last.call.alignment)
           size == last.call.size
       IN  IF (result + size) - cur0.data <= cur0.capacity
           THEN /\ last.st = "ok"
                /\ last.ptr = result
                /\ dyn.current = last.current0
                /\ blocks = [last.blocks0 EXCEPT ![last.current0].size =
                                                    (result + size) - cur0.data]
                /\ AllZero(last.ptr, 0, size)
           ELSE last.st = "ok"
                => /\ dyn.current \notin DOMAIN last.blocks0
                   /\ DOMAIN blocks = DOMAIN last.blocks0 \cup {dyn.current}
                   /\ \A b \in DOMAIN last.blocks0 : blocks[b] = last.blocks0[b]
                   /\ blocks[dyn.current] =
                          [data |-> dyn.current + HeaderSize,
                           capacity |-> Max(dyn.block_size_min, size),
                           size |-> size, prev |-> last.current0]
                   /\ last.ptr = blocks[dyn.current].data
                   /\ AllZero(last.ptr, 0, size)

\* B/2, B/2 and then B bytes: the third allocate starts the second block
C16_Witness ==
    /\ IsDynamic /\ Did("Alloc") /\ last.st = "ok"
    /\ last.call.size = BlockSizeMin
    /\ last.current0 # NULL
    /\ last.blocks0[last.current0].size = BlockSizeMin
    /\ last.blocks0[last.current0].prev = NULL
    /\ dyn.current # last.current0
    /\ Cardinality(DOMAIN blocks) = 2

\* the block at the end of the chain that starts at b
RECURSIVE Oldest(_, _)
Oldest(bs, b) == IF bs[b].prev = NULL THEN b ELSE Oldest(bs, bs[b].prev)

\* C17: reset of a dynamic arena leaves a chain of exactly one block, the
\* oldest one, with size 0 and its capacity bytes zero; every other block
\* has been freed to the backing allocator.
C17_ResetKeepsOldest ==
    (IsDynamic /\ Did("Reset") /\ last.current0 # NULL)
    => /\ last.st = "ok"
       /\ dyn.current = Oldest(last.blocks0, last.current0)
       /\ DOMAIN blocks = {dyn.current}
       /\ blocks[dyn.current] = [last.blocks0[dyn.current] EXCEPT !.size = 0]
       /\ AllZero(blocks[dyn.current].data, 0, blocks[dyn.current].capacity)
       /\ dyn.alloc = "c_allocator_proc"
          => {c.ptr : c \in heap.live} \cap DOMAIN last.blocks0 = {dyn.current}

C17_Witness ==
    /\ IsDynamic /\ Did("Reset") /\ last.st = "ok"
    /\ last.current0 # NULL
    /\ last.blocks0[last.current0].prev # NULL
    /\ last.blocks0[last.blocks0[last.current0].prev].size > 0

\* C18: the allocate that follows a reset of a dynamic arena, of a size up
\* to block_size_min and with any power-of-two alignment, is served from the
\* retained block: no block is created and the backing allocator is not
\* called.
C18_AllocAfterReset ==
    [][(IsDynamic /\ pc = "run" /\ last.call.op = "Reset" /\ last.st = "ok"
           /\ last'.call.op = "Alloc"
           /\ last'.call.size <= dyn.block_size_min)
       => (pc' = "run" /\ dyn' = dyn /\ DOMAIN blocks' = DOMAIN blocks
           /\ heap' = heap /\ arena' = arena)]_vars

\* C19: once dynamic_arena_free has run, allocate, resize, reset, total size
\* and destroy on that arena all end in a fatal assertion.
C19_UseAfterDestroyFatal ==
    (IsDynamic /\ last.call.op \in {"Alloc", "Resize", "Reset", "Size", "Destroy"}
        /\ last.current0 = NULL)
    => last.st = "fatal"

\* C20: a Free through a linear arena or dynamic arena allocator changes no
\* offset, no block and no byte, and does not fail.
C20_FreeIsNoOp ==
    [][((IsArena \/ IsDynamic) /\ pc = "run" /\ last'.call.op = "Free")
       => (arena' = arena /\ dyn' = dyn /\ blocks' = blocks /\ mem' = mem
           /\ heap' = heap /\ pc' = "run" /\ last'.st = "ok")]_vars

C20_Witness ==
    /\ IsArena /\ Did("Free") /\ last.st = "ok"
    /\ arena.offset > 0
    /\ held # {}

\* C21: arena_reset leaves the linear arena exactly as arena_init over the
\* same buffer would: offset 0 and every byte of the buffer zero, so what
\* follows a reset replays as on a fresh arena.
C21_ResetRestoresInit ==
    (IsArena /\ Did("Reset"))
    => /\ last.st = "ok"
       /\ arena.offset = 0
       /\ AllZero(arena.data, 0, arena.size)
       /\ arena_init(World, arena.data, arena.size) = World

C21_Witness ==
    /\ IsArena /\ Did("Reset") /\ last.st = "ok"
    /\ last.cursor0 > 0
    /\ arena.offset = 0

\* C22: the object an Allocator's data points to is within its lifetime
\* while the caller holds the Allocator, and an allocate of up to the
\* minimum block size through the Allocator of create_temporary_storage is
\* served.
C22_ContextLive ==
    /\ setup.context = "live"
    /\ (setup.by = "create_temporary_storage" /\ Did("Alloc") /\ nops = 1)
       => (last.st = "ok" /\ last.ptr # NULL)

\* the block b was created for an allocate of n bytes with alignment a that
\* did not fit the block before it, and holds nothing else
SpilledBlock(b, n, a) ==
    /\ b.prev # NULL
    /\ b.size = n
    /\ b.capacity = Max(dyn.block_size_min, n)
    /\ (AlignForward(last.blocks0[b.prev].data + last.blocks0[b.prev].size, a)
           + n) - last.blocks0[b.prev].data
          > last.blocks0[b.prev].capacity

\* the pointer handed to the last resize of a dynamic arena is one an
\* allocate of old_size bytes with the resize's alignment returns: an
\* aligned address, or the first byte of the block made for it
OldFromAllocate ==
    \/ OldAligned
    \/ /\ last.call.old_memory = Start0
       /\ SpilledBlock(last.blocks0[last.current0], last.call.old_size,
                       last.call.alignment)

\* the last resize of a dynamic arena found the new end within the
\* capacity of the current block
FitsCurrent ==
    (last.call.old_memory - Start0) + last.call.size
        <= last.blocks0[last.current0].capacity

\* C30: a dynamic arena resize of the tail of the current block whose new
\* end fits the block's capacity returns the same pointer, sets the block's
\* size to (old_pointer - data) + new_size and creates no block; any other
\* resize returns a fresh allocation holding the old_size old bytes; blocks
\* other than the current one are never modified.
C30_DynamicResize ==
    (IsDynamic /\ Did("Resize") /\ last.current0 # NULL
        /\ last.call.old_memory # NULL /\ last.call.old_size > 0
        /\ OldFromAllocate)
    => /\ \A b \in DOMAIN last.blocks0 \ {dyn.current} :
             b \in DOMAIN blocks /\ blocks[b] = last.blocks0[b]
       /\ IF WasTail /\ FitsCurrent
          THEN /\ last.st = "ok"
               /\ last.ptr = last.call.old_memory
               /\ dyn.current = last.current0
               /\ DOMAIN blocks = DOMAIN last.blocks0
               /\ blocks[dyn.current].size
                     = (last.call.old_memory - Start0) + last.call.size
          ELSE last.st = "ok"
               => /\ last.ptr # last.call.old_memory
                  /\ Bytes(mem, last.ptr, last.call.old_size) = last.old

IsArray == obj.kind = "Array"

\* the capacity the last push asked for when it had to grow
NewCapacity ==
    IF last.call.op = "array_push"
    THEN Max(last.obj0.capacity * 2, 4)
    ELSE Max(last.obj0.capacity * 2,
             last.obj0.items.size + Len(last.call.arg))

\* the last call grew the array's storage
Grew ==
    \/ /\ last.call.op = "array_push"
       /\ last.obj0.items.size + 1 > last.obj0.capacity
    \/ /\ last.call.op = "array_push_slice"
       /\ last.obj0.items.size + Len(last.call.arg) > last.obj0.capacity

\* the arena had room for the grown storage wherever it had to go
Room ==
    Grew => last.cursor0 + (NewCapacity + 1) * setup.elem <= arena.size

\* C23: over an arena allocator, after array_push, array_push_slice,
\* array_pop and array_clear the array's items are the abstract sequence,
\* array_pop returned its last element, size <= capacity, and a push past
\* capacity left max(capacity*2, 4) slots with the elements preserved.
C23_ArrayRefinesSequence ==
    (IsArray /\ Room
        /\ last.call.op \in {"array_push", "array_push_slice", "array_pop",
                             "array_clear"})
    => /\ last.st = "ok"
       /\ Items(mem, obj, setup.elem) = abs
       /\ obj.items.size <= obj.capacity
       /\ last.call.op = "array_pop"
             => last.ret = last.abs0[Len(last.abs0)]
       /\ (last.call.op = "array_push"
              /\ last.obj0.items.size + 1 > last.obj0.capacity)
             => obj.capacity = Max(last.obj0.capacity * 2, 4)

\* how often the value v occurs in the sequence s
Count(s, v) == Cardinality({k \in DOMAIN s : s[k] = v})

\* the sequence s holds what the sequence t holds less one occurrence of v
LessOne(s, t, v) ==
    \A u \in Vals : Count(s, u) = Count(t, u) - (IF u = v THEN 1 ELSE 0)

\* C24: array_remove_at(array, i) returns the element at i and leaves the
\* previous sequence without it: size one less, the rest in order, and
\* array_last the previous last element unless i was the last index.
C24_RemoveAtOrdered ==
    (IsArray /\ Did("array_remove_at"))
    => /\ last.st = "ok"
       /\ last.ret = last.abs0[last.call.arg + 1]
       /\ obj.items.size = last.obj0.items.size - 1
       /\ Items(mem, obj, setup.elem) = RemoveAt(last.abs0, last.call.arg)
       /\ last.call.arg < Len(last.abs0) - 1
             => array_last(World, obj, setup.elem).ret
                    = last.abs0[Len(last.abs0)]

\* C25: array_remove_at_unordered(array, i) returns the element at i, takes
\* one off size and leaves the previous elements less that one;
\* array_remove_unordered(array, v) returns true and removes one occurrence
\* of v when v is present, and returns false and changes nothing when not.
C25_RemoveUnordered ==
    /\ (IsArray /\ Did("array_remove_at_unordered"))
       => /\ last.st = "ok"
          /\ last.ret = last.abs0[last.call.arg + 1]
          /\ obj.items.size = last.obj0.items.size - 1
          /\ LessOne(Items(mem, obj, setup.elem), last.abs0, last.ret)
    /\ (IsArray /\ Did("array_remove_unordered"))
       => /\ last.st = "ok"
          /\ IF Count(last.abs0, last.call.arg) > 0
             THEN /\ last.ret = TRUE
                  /\ obj.items.size = last.obj0.items.size - 1
                  /\ LessOne(Items(mem, obj, setup.elem), last.abs0,
                             last.call.arg)
             ELSE /\ last.ret = FALSE
                  /\ obj = last.obj0
                  /\ Items(mem, obj, setup.elem) = last.abs0

IsRing == obj.kind = "RingBuffer"

\* the arena had room for the doubled storage when the last push had to grow
RingRoom ==
    (last.call.op \in {"ring_buffer_push_end", "ring_buffer_push_front"}
        /\ last.obj0.size = last.obj0.capacity)
    => last.cursor0 + (2 * last.obj0.capacity + 1) * setup.elem <= arena.size

\* C26: after push_end, push_front, pop_front and pop_end on a ring buffer
\* made with capacity >= 1, wrapped or grown, size is the length of the
\* deque, buffer[i] is its i-th element from the front, pop_front returned
\* the front element and pop_end the back element.
C26_RingRefinesDeque ==
    (IsRing /\ RingRoom
        /\ last.call.op \in {"ring_buffer_push_end", "ring_buffer_push_front",
                             "ring_buffer_pop_front", "ring_buffer_pop_end"})
    => /\ last.st = "ok"
       /\ obj.size = Len(abs)
       /\ \A i \in 0 .. (obj.size - 1) :
             ring_index(World, obj, i, setup.elem).ret = abs[i + 1]
       /\ last.call.op = "ring_buffer_pop_front"
             => last.ret = last.abs0[1]
       /\ last.call.op = "ring_buffer_pop_end"
             => last.ret = last.abs0[Len(last.abs0)]

\* a push grew a full buffer whose elements wrapped around the end of the
\* storage, and the buffer holds more than its old capacity
C26_Witness ==
    /\ IsRing /\ last.st = "ok"
    /\ last.call.op \in {"ring_buffer_push_end", "ring_buffer_push_front"}
    /\ last.obj0.size = last.obj0.capacity
    /\ last.obj0.head > 0
    /\ obj.capacity = 2 * last.obj0.capacity
    /\ obj.size = last.obj0.capacity + 1

IsBitSet == obj.kind = "BitSet"

\* the addresses of the (size + 7) / 8 bytes of the bit set s
BytesOf(s) == s.data .. (s.data + ((s.size + 7) \div 8) - 1)

\* C27: bit_set_and, bit_set_or and bit_set_xor on two bit sets of one size
\* n leave bit i of a equal to a_i op b_i for every i < n, leave b as it
\* was, and write no byte outside the (n + 7) / 8 bytes of a.
C27_CombineBitwise ==
    (IsBitSet /\ Did("bit_set_combine"))
    => /\ last.st = "ok"
       /\ Bits(mem, obj.a) = abs.a
       /\ Bits(mem, obj.b) = abs.b
       /\ last.ret \subseteq BytesOf(obj.a)

\* C28: bit_set_count(a) is the number of indices i < size at which
\* bit_set_get(a, i) is true, after any bit_set_set and bit_set_clear.
C28_CountIsCardinality ==
    (IsBitSet /\ Did("bit_set_count"))
    => /\ last.st = "ok"
       /\ last.ret = Cardinality(Bits(mem, obj.a))

IsString == obj.kind = "String"

\* C29: string_utf8_size(str) is the number of code points in the str.size
\* bytes of str whenever these are valid UTF-8, also for a String made by
\* string_substr or string_from_parts that no NUL byte follows.
C29_Utf8SizeCountsCodePoints ==
    (IsString /\ Did("string_utf8_size") /\ Utf8Valid(Viewed(mem, obj), 1))
    => /\ last.st = "ok"
       /\ last.ret = Utf8Count(Viewed(mem, obj), 1)

\* the blocks the prev links visit from b, in order
RECURSIVE Chain(_, _)
Chain(bs, b) ==
    IF b = NULL \/ b \notin DOMAIN bs THEN <<>>
    ELSE <<b>> \o Chain([x \in (DOMAIN bs) \ {b} |-> bs[x]], bs[b].prev)

\* C31: destroy of a dynamic arena passes every block of the chain, from
\* current down to the oldest, to Free of the arena's allocator exactly
\* once, in that order, and then current is null; a chain of k blocks makes
\* exactly k Free calls, and afterwards no block is left (on the heap, no
\* chunk of a block is live).
C31_DestroyFreesChain ==
    (IsDynamic /\ Did("Destroy"))
    => /\ last.st = "ok"
       /\ dyn.current = NULL
       /\ Len(last.frees) = Cardinality(DOMAIN last.blocks0)
       /\ [i \in 1 .. Len(last.frees) |-> last.frees[i].memory]
              = Chain(last.blocks0, last.current0)
       /\ \A i \in 1 .. Len(last.frees) : last.frees[i].alloc = dyn.alloc
       /\ \A i, j \in 1 .. Len(last.frees) :
              last.frees[i].memory = last.frees[j].memory => i = j
       /\ DOMAIN blocks = {}
       /\ dyn.alloc = "c_allocator_proc"
          => {c.ptr : c \in heap.live} \cap DOMAIN last.blocks0 = {}

C31_Witness ==
    /\ IsDynamic /\ Did("Destroy") /\ last.st = "ok"
    /\ Len(last.frees) = 2
    /\ last.blocks0[last.current0].prev # NULL
    /\ last.blocks0[last.current0].size > 0

\* C32: on a linear arena a resize of the null pointer does what
\* allocate(new_size, alignment) does from the same state, for every
\* non-negative new_size and every alignment core_alloc accepts: the same
\* outcome (returned or fatal), the same pointer, the same offset and bytes.
C32_ResizeNullIsAllocate ==
    [][(IsArena /\ pc = "run" /\ last'.call.op = "Resize"
           /\ last'.call.old_memory = NULL
           /\ last'.call.size >= 0
           /\ IsPow2Check(last'.call.alignment))
       => /\ last'.st = core_alloc(World, proc, last'.call.size,
                                   last'.call.alignment).st
          /\ last'.ptr = core_alloc(World, proc, last'.call.size,
                                    last'.call.alignment).ptr
          /\ arena' = core_alloc(World, proc, last'.call.size,
                                 last'.call.alignment).w.arena
          /\ mem' = core_alloc(World, proc, last'.call.size,
                               last'.call.alignment).w.mem]_vars

IsPush == last.call.op \in {"ring_buffer_push_end", "ring_buffer_push_front"}

\* the last call was a push that found the buffer full
PushedFull == IsRing /\ IsPush /\ last.obj0.size = last.obj0.capacity

C38_RingIndexInvariant ==
    IsRing
    => /\ RingAsserts(obj)
       /\ 0 <= obj.size /\ obj.size <= obj.capacity
       /\ (obj.head + obj.size) % obj.capacity = obj.tail % obj.capacity
       /\ last.st # "fatal" \/ (PushedFull /\ ~RingRoom)

\* a pop took the element in the last slot of the storage while the buffer
\* was wrapped: head went round to 0
C38_Witness ==
    /\ IsRing /\ last.call.op = "ring_buffer_pop_front" /\ last.st = "ok"
    /\ last.obj0.head = last.obj0.capacity - 1
    /\ last.obj0.tail < last.obj0.head
    /\ last.obj0.capacity >= 2
    /\ obj.head = 0
    /\ obj.size > 0

\* C34: an allocate or a resize on a linear or a dynamic arena changes no
\* byte outside the region it returns, but for the freed tail an in-place
\* shrink zeroes; in particular none at or beyond the end of the arena's
\* buffer or of the current block.  (The bytes of a chunk the heap hands
\* out for a new block in the same call are the heap's to clear.)
C34_WritesStayInside ==
    [][((IsArena \/ IsDynamic) /\ pc = "run"
           /\ last'.call.op \in {"Alloc", "Resize"})
       => \A a \in Addr :
             mem'[a] # mem[a]
             => \/ /\ last'.st = "ok"
                   /\ a >= last'.ptr
                   /\ a < last'.ptr + last'.call.size
                \/ /\ last'.st = "ok"
                   /\ last'.call.op = "Resize"
                   /\ last'.ptr = last'.call.old_memory
                   /\ a >= last'.ptr + last'.call.size
                   /\ a < last'.ptr + last'.call.old_size
                \/ \E c \in heap'.live \ heap.live :
                      a >= c.ptr /\ a < c.ptr + c.size]_vars

\* the regions the caller held before the last call all lay below the bump
\* cursor, inside the buffer
HeldBelowCursor ==
    \A r \in held \ {Region(last.ptr, last.call.size)} :
        r.ptr >= arena.data /\ r.ptr + r.size <= arena.data + last.cursor0

\* C35: a core_alloc on a linear arena with a non-negative size and an
\* alignment its assertion accepts returns a region inside
\* [buffer_start, buffer_start + capacity) that shares no byte with a region
\* returned before it (no reset in between).
C35_AllocationsDisjoint ==
    (IsArena /\ Did("Alloc") /\ last.st = "ok" /\ last.call.size >= 0
        /\ IsPow2Check(last.call.alignment) /\ HeldBelowCursor)
    => /\ last.ptr >= arena.data
       /\ last.ptr + last.call.size <= arena.data + arena.size
       /\ \A r \in held \ {Region(last.ptr, last.call.size)} :
             r.ptr + r.size <= last.ptr \/ last.ptr + last.call.size <= r.ptr

\* C36: a block of capacity C of a dynamic arena takes exactly
\* sizeof(MemoryBlock) + C bytes from the backing allocator: on the heap the
\* block's chunk has that size, and making the arena over a fresh linear
\* arena moves that arena's offset by that much.
C36_BlockRequestSize ==
    (IsDynamic /\ ~Destroyed)
    => /\ dyn.alloc = "c_allocator_proc"
          => \A b \in DOMAIN blocks :
                \E c \in heap.live :
                   c.ptr = b /\ c.size = HeaderSize + blocks[b].capacity
       /\ (dyn.alloc = "arena_alloc_proc" /\ nops = 0)
          => arena.offset = HeaderSize + blocks[dyn.current].capacity

IsShared == obj.kind = "Shared"

\* the elements of the container c, front to back, as its accessors read
\* them
Contents(m, c, es) ==
    IF c.kind = "Array" THEN Items(m, c, es)
    ELSE [i \in 1 .. c.size |->
             LoadElem(m, c.data + ((c.head + i - 1) % c.capacity) * es, es)]

\* the container's storage was the arena's last allocation before the call
StorageWasTail(c, es) ==
    IF c.kind = "Array"
    THEN c.items.data + c.capacity * es = arena.data + last.cursor0
    ELSE c.data + c.capacity * es = arena.data + last.cursor0

\* C37: two Arrays, or an Array and a RingBuffer, made from one linear
\* arena allocator: after every push on either, in any interleaving the
\* arena has room for, each container holds exactly the values pushed on
\* it, in order.
C37_SharedArenaContainers ==
    (IsShared /\ Did("push"))
    => /\ last.st = "ok"
       /\ Contents(mem, obj.first, setup.elem) = abs.first
       /\ Contents(mem, obj.second, setup.elem) = abs.second

\* C39: bit_set_not(a) on a set of any size n leaves bit i of a the
\* negation of what it was for every i < n, leaves the padding bits above
\* index n - 1 of the last byte zero, and bit_set_count is then n minus the
\* number of bits that were set.
C39_NotComplements ==
    (IsBitSet /\ Did("bit_set_not"))
    => /\ last.st = "ok"
       /\ Bits(mem, obj.a) = abs.a
       /\ obj.a.size % 8 > 0
          => mem[obj.a.data + ((obj.a.size + 7) \div 8) - 1]
                < 2 ^ (obj.a.size % 8)
       /\ \A ub \in Strays :
             /\ bit_set_count(World, obj, ub).st = "ok"
             /\ bit_set_count(World, obj, ub).ret = Cardinality(abs.a)

\* the sequence s holds no value twice
NoDuplicates(s) == \A j, k \in DOMAIN s : s[j] = s[k] => j = k

\* C40: array_push_if_new(array, v) on an initialised array, an empty one
\* included, appends v when v is not among the items and leaves the array
\* as it was when it is; items without duplicates stay without duplicates.
C40_PushIfNew ==
    (IsArray /\ Did("array_push_if_new")
        /\ last.cursor0 + (Max(last.obj0.capacity * 2, 4) + 1) * setup.elem
              <= arena.size)
    => /\ last.st = "ok"
       /\ Items(mem, obj, setup.elem)
             = (IF \E k \in DOMAIN last.abs0 : last.abs0[k] = last.call.arg
                THEN last.abs0 ELSE Append(last.abs0, last.call.arg))
       /\ NoDuplicates(last.abs0) => NoDuplicates(Items(mem, obj, setup.elem))
====
